---- MODULE Spec2Model ----
(***************************************************************************)
(* Model of guardian_content_fetcher: the fetch-and-publish coordinator    *)
(* (content_fetcher.py, GuardianContentFetcher) driven against its two     *)
(* collaborators, the search client and the message-broker publisher.      *)
(* The collaborators are the abstract interfaces the coordinator calls:    *)
(* every response they can give (a list of articles, a count, a boolean,   *)
(* a raised error) is a nondeterministic choice.                           *)
(***************************************************************************)
EXTENDS Integers, Sequences, FiniteSets, TLC

(* ----------------------------- bounds ---------------------------------- *)
\* longest article list the search client hands back in the model
MaxFound == 3
\* number of fetch_and_publish invocations on one coordinator instance
MaxCalls == 2

\* longest result list in a response of the search API
MaxResults == 2
\* number of search_content calls on one client instance
MaxSearches == 2
\* ticks the clock advances on its own, apart from the rate limiter's sleeps
MaxTicks == 3
\* number of method calls on one publisher instance
MaxOps == 4
\* longest message list handed to a publisher
MaxBatch == 2
\* full batches in the longest list handed to KinesisPublisher.publish_batch
MaxChunks == 2

(* ------------------------ program constants ----------------------------- *)
\* upper limit of max_articles in _validate_inputs
MaxArticlesLimit == 50
\* upper limit of page_size in search_content
MaxPageSize == 50
\* length of the content preview cut out of bodyText
PreviewLimit == 1000
\* batch_size of KinesisPublisher.publish_batch
KinesisBatchSize == 500
\* length to which the partition key is cut
PartitionKeyLimit == 256
\* GuardianAPIClient.DEFAULT_RATE_LIMIT_DELAY, in ticks
DefaultRateLimitDelay == 2
\* time.time() when the client is constructed, in ticks
StartTime == 5
\* the rate_limit_delay values a client is constructed with
RateLimitDelays == { DefaultRateLimitDelay, 3 }
\* the clock stops advancing on its own here
MaxClock == StartTime + MaxTicks

None == "None"

(* --------------------------- input domains ------------------------------ *)
\* search terms are character sequences, so that str.strip() is computed
SearchTerms == { <<>>, <<" ">>, <<" ", " ">>, <<"a">>, <<" ", "a", " ">> }
DateFroms == { None, "2023-01-01" }
MaxArticlesInputs == { -1, 0, 1, 10, 50, 51 }

\* exception classes that cross the coordinator's try blocks
GuardianAPIError == "GuardianAPIError"
MessageBrokerError == "MessageBrokerError"
ValueError == "ValueError"
OtherException == "Exception"
GuardianContentFetcherError == "GuardianContentFetcherError"
AttributeError == "AttributeError"
TypeError == "TypeError"
NoCredentialsError == "NoCredentialsError"
ClientError == "ClientError"
KeyError == "KeyError"
EnvironmentError == "EnvironmentError"
ConfigurationError == "ConfigurationError"
CLIError == "CLIError"
KeyboardInterrupt == "KeyboardInterrupt"

(* ------------------------------ state ----------------------------------- *)
VARIABLES
    pc,               \* position of the coordinator: idle, fetch, publish, individual, done
    search_term,      \* argument of the running call
    date_from,        \* argument of the running call
    max_articles,     \* argument of the running call
    articles,         \* list returned by api_client.search_content
    result,           \* the local result dictionary of fetch_and_publish
    published_count,  \* local counter of _publish_articles_individually
    idx,              \* 1-based loop position of _publish_articles_individually
    log,              \* collaborator calls of the running call, in order
    ret,              \* what the caller received: a result or a raised error
    ncalls,           \* invocations of fetch_and_publish so far
    previous,         \* how the preceding invocation on this instance ended
    api_client,       \* GuardianContentFetcher.api_client: the class of the search client
    message_broker,   \* GuardianContentFetcher.message_broker: the class of the publisher
    scope,            \* the with-block around the coordinator: none, entered, exited
    close_log,        \* what each message_broker.close() call did, in order
    propagated,       \* the exception that left the with-block, or NoError
    now,              \* time.time(), in ticks
    rate_limit_delay, \* GuardianAPIClient.rate_limit_delay, in ticks
    last_request_time,\* GuardianAPIClient._last_request_time
    c_pc,             \* position of search_content: idle, request
    c_args,           \* arguments of the last search_content call
    requests,         \* the remote requests issued, in order
    response,         \* what the transport gave the last request
    c_ret,            \* what the caller of search_content received
    c_ncalls,         \* search_content calls so far
    raw_results,      \* "results" of a response handed to the mapping loop
    formatted,        \* the article list the mapping loop made of it
    publisher,        \* the publisher instance: its class and its attributes
    p_ret,            \* the last publisher call: arguments, state before, outcome
    p_closes,         \* close() calls on the instance so far
    p_nops,           \* method calls on the instance so far
    p_sent,           \* the messages handed to the publish calls on the instance
                      \* since the last clear_messages, in order
    h_pc,             \* position of the Lambda handler: idle, running, done
    event,            \* the event the handler was invoked with
    env,              \* the process environment the handler reads
    h_stage,          \* how far the handler got: params, config, construction, fetch
    h_response,       \* the dictionary the handler returned
    cli_pc,           \* position of the command-line entry point: idle, running, done
    cli_mode,         \* argument or interactive
    cli_args,         \* what the user gave: arguments, or answers to the prompts
    cli_stage,        \* how far the run got: input, usage, config, validation,
                      \* construction, fetch
    interactive_code, \* what run_interactive_mode returned, -1 if not called
    exit_code,        \* the exit code of the process, -1 while it runs
    k_pc,             \* position of the publish call: idle, batch, done
    k_op,             \* the method called: publish_message or publish_batch
    k_messages,       \* the messages the call is given
    k_offset,         \* the loop variable i of publish_batch
    successful_count, \* the local counter of publish_batch
    k_calls,          \* the put_record and put_records calls issued, in order
    k_ret             \* what the caller of the publish call received

\* the coordinator and the calls it makes
coordVars == << pc, search_term, date_from, max_articles, articles, result,
                published_count, idx, log, ret, ncalls, previous, api_client,
                message_broker >>

\* the scoped use of the coordinator
scopeVars == << scope, close_log, propagated >>

\* the search client
clientVars == << now, rate_limit_delay, last_request_time, c_pc, c_args,
                 requests, response, c_ret, c_ncalls >>

\* what the coordinator and its with-block leave alone
\* the mapping of raw results to articles, taken alone
previewVars == << raw_results, formatted >>

\* a message-broker publisher
publisherVars == << publisher, p_ret, p_closes, p_nops, p_sent >>

\* the Lambda handler
handlerVars == << h_pc, event, env, h_stage, h_response >>

\* the command-line entry point
cliVars == << cli_pc, cli_mode, cli_args, cli_stage, interactive_code, exit_code >>

\* one publish call on a KinesisPublisher with a live client
kinesisVars == << k_pc, k_op, k_messages, k_offset, successful_count, k_calls, k_ret >>

outerVars == << clientVars, previewVars, publisherVars, handlerVars, cliVars,
               kinesisVars >>

vars == << coordVars, scopeVars, outerVars >>

(* --------------------------- pure helpers ------------------------------- *)
\* str.strip(): drop leading and trailing blanks
RECURSIVE lstrip(_)
lstrip(s) == IF s # <<>> /\ Head(s) = " " THEN lstrip(Tail(s)) ELSE s

RECURSIVE rstrip(_)
rstrip(s) == IF s # <<>> /\ s[Len(s)] = " " THEN rstrip(SubSeq(s, 1, Len(s) - 1)) ELSE s

strip(s) == rstrip(lstrip(s))

NoError == [type |-> "none", msg |-> "", cause |-> ""]

Raise(type, msg, cause) == [type |-> type, msg |-> msg, cause |-> cause]

\* result['errors'] entries: the f-string and the numbers formatted into it
ErrorEntry(fmt, args, cause) == [fmt |-> fmt, args |-> args, cause |-> cause]

OnlyMsg(k, n) == ErrorEntry("Only {} out of {} articles were published", <<k, n>>, "")

FailedMsg == ErrorEntry("Failed to publish any articles to message broker", <<>>, "")

ServiceErrorMsg(cause) == ErrorEntry("Service error during fetch and publish: {}", <<>>, cause)

UnexpectedErrorMsg(cause) == ErrorEntry("Unexpected error during fetch and publish: {}", <<>>, cause)

\* _validate_inputs: the exception it raises, or NoError
validate_inputs(term, maxa) ==
    IF term = <<>> \/ strip(term) = <<>>
    THEN Raise(ValueError, "Search term cannot be empty or whitespace", "")
    ELSE IF maxa <= 0 \/ maxa > MaxArticlesLimit
         THEN Raise(ValueError, "max_articles must be between 1 and 50", "")
         ELSE NoError

\* a result dictionary that records the trimmed term instead of the argument
InitialResult_Trimmed(term, date) ==
    [ success |-> FALSE, articles_found |-> 0, articles_published |-> 0,
      search_term |-> strip(term), date_from |-> date, errors |-> <<>> ]

\* the initial result dictionary of fetch_and_publish
InitialResult(term, date) ==
    [ success |-> FALSE, articles_found |-> 0, articles_published |-> 0,
      search_term |-> term, date_from |-> date, errors |-> <<>> ]

\* the two except clauses of fetch_and_publish: what the caller sees raised
HandleException(type) ==
    IF type \in {GuardianAPIError, MessageBrokerError}
    THEN Raise(GuardianContentFetcherError, ServiceErrorMsg(type).fmt, type)
    ELSE Raise(GuardianContentFetcherError, UnexpectedErrorMsg(type).fmt, type)

\* a search error swallowed and treated as an empty list
FetchOutcome_SwallowError(r) ==
    IF r.kind = "raise" THEN "empty"
    ELSE IF r.n = 0 THEN "empty"
    ELSE "publish"

\* fetch_and_publish after _fetch_articles: raise, return early on an empty list, or publish
FetchOutcome(r) ==
    IF r.kind = "raise" THEN "raise"
    ELSE IF r.n = 0 THEN "empty"
    ELSE "publish"

\* an early return that forgets to set the success flag
EmptyResult_NoSuccess(res) == [res EXCEPT !.articles_found = 0]

\* the early return of fetch_and_publish when no article was found
EmptyResult(res) == [res EXCEPT !.articles_found = 0, !.success = TRUE]

\* the except clauses of _publish_articles: MessageBrokerError is re-raised,
\* any other exception is replaced by a MessageBrokerError
PublishArticlesRaises(type) ==
    IF type = MessageBrokerError THEN type ELSE MessageBrokerError

\* a fallback that also runs after a partial batch
BatchOutcome_FallbackOnPartial(r, n) ==
    IF r.kind = "raise" THEN "raise"
    ELSE IF r.k = n THEN "return"
    ELSE "individual"

\* a fallback that also runs when the batch call raised
BatchOutcome_FallbackOnRaise(r, n) ==
    IF r.kind = "raise" THEN "individual"
    ELSE IF r.k = n THEN "return"
    ELSE IF r.k > 0 THEN "return"
    ELSE "individual"

\* _publish_articles after the publish_batch call on n articles answered r
BatchOutcome(r, n) ==
    IF r.kind = "raise" THEN "raise"
    ELSE IF r.k = n THEN "return"
    ELSE IF r.k > 0 THEN "return"
    ELSE "individual"

\* a Step 3 that reports a zero count as success
DetermineSuccess_ZeroIsSuccess(res, count, n) ==
    LET r == [res EXCEPT !.articles_published = count] IN
    IF count = n THEN [r EXCEPT !.success = TRUE]
    ELSE IF count >= 0
         THEN [r EXCEPT !.success = TRUE, !.errors = Append(@, OnlyMsg(count, n))]
         ELSE [r EXCEPT !.success = FALSE, !.errors = Append(@, FailedMsg)]

\* a Step 3 that reports every shortfall as a failure
DetermineSuccess_PartialIsFailure(res, count, n) ==
    LET r == [res EXCEPT !.articles_published = count] IN
    IF count = n THEN [r EXCEPT !.success = TRUE]
    ELSE IF count > 0
         THEN [r EXCEPT !.success = FALSE, !.errors = Append(@, OnlyMsg(count, n))]
         ELSE [r EXCEPT !.success = FALSE, !.errors = Append(@, FailedMsg)]

\* Step 3 of fetch_and_publish: success flag and error entry from the count
DetermineSuccess(res, count, n) ==
    LET r == [res EXCEPT !.articles_published = count] IN
    IF count = n THEN [r EXCEPT !.success = TRUE]
    ELSE IF count > 0
         THEN [r EXCEPT !.success = TRUE, !.errors = Append(@, OnlyMsg(count, n))]
         ELSE [r EXCEPT !.success = FALSE, !.errors = Append(@, FailedMsg)]

\* a loop that stops counting after the first published article
CountIndividual_StopsAfterFirst(count, o) ==
    IF o.kind = "return" /\ o.k = 1 /\ count = 0 THEN count + 1 ELSE count

\* a loop that loses its count when publish_message raises
CountIndividual_RaiseResets(count, o) ==
    IF o.kind = "raise" THEN 0
    ELSE IF o.k = 1 THEN count + 1 ELSE count

\* one iteration of the loop of _publish_articles_individually: o is what
\* publish_message did (returned True or False, or raised)
CountIndividual(count, o) ==
    IF o.kind = "return" /\ o.k = 1 THEN count + 1 ELSE count

Returned(res) == [kind |-> "result", value |-> res, error |-> NoError]

Raised(err) == [kind |-> "raise", value |-> InitialResult(<<>>, None), error |-> err]

NoReturn == [kind |-> "none", value |-> InitialResult(<<>>, None), error |-> NoError]

\* one collaborator call: the method, what it was called with (page size,
\* list length, article), whether it returned or raised, and the value
\* (list length, count, True = 1 / False = 0) or the exception class
LogEntry(op, arg, r) == [op |-> op, arg |-> arg, out |-> r.kind, k |-> r.k, exc |-> r.exc]

(* ----------------------- collaborator responses ------------------------- *)
ArticleList(n) == [i \in 1..n |-> i]

\* search_content: a list of n articles, or a raised error
SearchResponses ==
    { [kind |-> "return", n |-> n, k |-> n, exc |-> ""] : n \in 0..MaxFound }
    \cup { [kind |-> "raise", n |-> 0, k |-> 0, exc |-> e] :
             e \in {GuardianAPIError, ValueError, OtherException} }

\* publish_batch: any integer, or a raised error
BatchResponses(n) ==
    { [kind |-> "return", k |-> k, exc |-> ""] : k \in -1..(n + 1) }
    \cup { [kind |-> "raise", k |-> 0, exc |-> e] : e \in {MessageBrokerError, OtherException} }

\* publish_message: True (1), False (0), or a raised error
MessageOutcomes ==
    { [kind |-> "return", k |-> k, exc |-> ""] : k \in {0, 1} }
    \cup { [kind |-> "raise", k |-> 0, exc |-> e] : e \in {MessageBrokerError, OtherException} }

\* message_broker.close(): returns, or raises
CloseOutcomes ==
    { [kind |-> "return", k |-> 0, exc |-> ""] }
    \cup { [kind |-> "raise", k |-> 0, exc |-> e] : e \in {MessageBrokerError, OtherException} }

(* ------------------------- scoped acquisition ---------------------------- *)
\* the exception with which the with-body ends: the one fetch_and_publish raised
BodyException(r) == IF r.kind = "raise" THEN r.error ELSE NoError

\* a close() that lets the publisher's exception out
close_Propagates(o) ==
    [ closed |-> << o >>,
      raised |-> IF o.kind = "raise" THEN Raise(o.exc, "", "") ELSE NoError ]

\* GuardianContentFetcher.close: one message_broker.close() call inside
\* try / except Exception, which logs the exception and does not raise
close(o) == [ closed |-> << o >>, raised |-> NoError ]

\* an __exit__ that never calls close()
exit_scope_NoClose(body, o) == [ closed |-> <<>>, propagated |-> body ]

\* __exit__: calls close() and returns None, so an exception of the body is
\* re-raised after it; an exception raised inside __exit__ would replace it
exit_scope(body, o) ==
    LET c == close(o) IN
    [ closed |-> c.closed,
      propagated |-> IF c.raised.type # "none" THEN c.raised ELSE body ]

(* ---------------------------- search client ----------------------------- *)
\* date_from values handed to search_content
ClientDates == { None, "", "2023-01-01", "2023-1-5", "2023-13-01", "2023-02-30", "01/01/2023" }
PageSizes == { 0, 1, 50, 51 }
ClientTerms == { <<>>, <<" ">>, <<" ", "a", " ">> }

\* the characters of a date_from string
DateText(d) ==
    CASE d = "2023-01-01" -> << "2", "0", "2", "3", "-", "0", "1", "-", "0", "1" >>
      [] d = "2023-1-5"   -> << "2", "0", "2", "3", "-", "1", "-", "5" >>
      [] d = "2023-13-01" -> << "2", "0", "2", "3", "-", "1", "3", "-", "0", "1" >>
      [] d = "2023-02-30" -> << "2", "0", "2", "3", "-", "0", "2", "-", "3", "0" >>
      [] d = "01/01/2023" -> << "0", "1", "/", "0", "1", "/", "2", "0", "2", "3" >>
      [] OTHER -> <<>>

Digits == << "0", "1", "2", "3", "4", "5", "6", "7", "8", "9" >>

IsDigit(c) == \E i \in 1..10 : Digits[i] = c

DigitVal(c) == (CHOOSE i \in 1..10 : Digits[i] = c) - 1

AllDigits(s) == \A i \in 1..Len(s) : IsDigit(s[i])

RECURSIVE ToInt(_)
ToInt(s) == IF s = <<>> THEN 0 ELSE 10 * ToInt(SubSeq(s, 1, Len(s) - 1)) + DigitVal(s[Len(s)])

RECURSIVE Split(_, _)
Split(s, sep) ==
    IF \A i \in 1..Len(s) : s[i] # sep
    THEN << s >>
    ELSE LET i == CHOOSE j \in 1..Len(s) : s[j] = sep /\ \A k \in 1..(j - 1) : s[k] # sep
         IN  << SubSeq(s, 1, i - 1) >> \o Split(SubSeq(s, i + 1, Len(s)), sep)

IsLeap(y) == (y % 4 = 0 /\ y % 100 # 0) \/ y % 400 = 0

DaysInMonth(y, m) ==
    IF m = 2 THEN (IF IsLeap(y) THEN 29 ELSE 28)
    ELSE IF m \in {4, 6, 9, 11} THEN 30 ELSE 31

\* datetime.strptime(s, "%Y-%m-%d") succeeds: four digits of year, one or two
\* digits of month and of day (the leading zero is optional), a real date
strptime(s) ==
    LET p == Split(s, "-") IN
    /\ Len(p) = 3
    /\ Len(p[1]) = 4 /\ AllDigits(p[1]) /\ ToInt(p[1]) >= 1
    /\ Len(p[2]) \in {1, 2} /\ AllDigits(p[2]) /\ ToInt(p[2]) \in 1..12
    /\ Len(p[3]) \in {1, 2} /\ AllDigits(p[3])
    /\ ToInt(p[3]) \in 1..DaysInMonth(ToInt(p[1]), ToInt(p[2]))

\* "if date_from:" a date filter was provided
DateProvided(d) == d # None /\ d # ""

\* the checks of search_content, in the order of the code
search_validate(term, date, page_size) ==
    IF term = <<>> \/ strip(term) = <<>>
    THEN Raise(ValueError, "Search term cannot be empty", "")
    ELSE IF page_size <= 0 \/ page_size > MaxPageSize
    THEN Raise(ValueError, "Page size must be between 1 and 50", "")
    ELSE IF DateProvided(date) /\ ~strptime(DateText(date))
    THEN Raise(ValueError, "date_from must be in YYYY-MM-DD format", "")
    ELSE NoError

\* the query parameters of the request; _make_request adds the API key
build_params(term, date, page_size) ==
    [ q |-> strip(term),
      page_size |-> page_size,
      order_by |-> "newest",
      show_fields |-> "webPublicationDate,webTitle,webUrl,bodyText",
      from_date |-> IF DateProvided(date) THEN date ELSE None,
      api_key |-> "api_key" ]

\* a rate limiter that sleeps the whole delay
wait_time_WholeDelay(t, last, delay) == IF t - last < delay THEN delay ELSE 0

\* _wait_for_rate_limit: how long the caller sleeps at time t
wait_time(t, last, delay) == IF t - last < delay THEN delay - (t - last) ELSE 0

Letters == << "a", "b", "c", "d", "e", "f", "g" >>

\* a body text of n characters
Text(n) == [i \in 1..n |-> Letters[(i % 7) + 1]]

BodyLengths == { 0, 500, PreviewLimit - 1, PreviewLimit, PreviewLimit + 1, PreviewLimit + 50 }

\* the raw results the API can put at position i: without "fields", or with
\* a bodyText of one of the lengths (length 0: empty or missing bodyText)
RawArticles(i) ==
    { [webUrl |-> i, fields |-> FALSE, bodyText |-> <<>>] }
    \cup { [webUrl |-> i, fields |-> TRUE, bodyText |-> Text(n)] : n \in BodyLengths }

RECURSIVE RawListsOf(_)
RawListsOf(n) ==
    IF n = 0 THEN { <<>> }
    ELSE { Append(l, a) : l \in RawListsOf(n - 1), a \in RawArticles(n) }

\* every result list of up to MaxResults raw results
RawLists == UNION { RawListsOf(n) : n \in 0..MaxResults }

\* one result list of each length: long body texts and results without fields
SampleList(n) ==
    [i \in 1..n |-> IF i % 2 = 1
                    THEN [webUrl |-> i, fields |-> TRUE, bodyText |-> Text(PreviewLimit + 50)]
                    ELSE [webUrl |-> i, fields |-> FALSE, bodyText |-> <<>>]]

\* the result lists the search API answers with when the client is driven
ResultLists == { SampleList(n) : n \in 0..MaxFound }

\* what requests.get, raise_for_status and response.json() can give:
\* a transport failure, an unparseable body, or a JSON document
Transport(kind, top, resp, status, message, results_kind, results) ==
    [ kind |-> kind, top |-> top, response |-> resp, status |-> status,
      message |-> message, results_kind |-> results_kind, results |-> results ]

NoResponse == Transport("none", "", "", "", "", "", <<>>)

Transports ==
    { Transport(k, "", "", "", "", "", <<>>) :
        k \in {"ConnectionError", "Timeout", "HTTPError", "InvalidJSON"} }
    \cup { Transport("json", "array", "", "", "", "", <<>>) }
    \cup { Transport("json", "object", r, "", "", "", <<>>) : r \in {"missing", "null"} }
    \cup { Transport("json", "object", "object", st, m, "missing", <<>>) :
              st \in {"error", "missing"}, m \in {"missing", "Invalid API key"} }
    \cup { Transport("json", "object", "object", "ok", "missing", rk, <<>>) :
              rk \in {"missing", "null"} }
    \cup { Transport("json", "object", "object", "ok", "missing", "list", l) : l \in ResultLists }

ClientRaise(exc, fmt, detail) ==
    [ kind |-> "raise", exc |-> exc, fmt |-> fmt, detail |-> detail, articles |-> <<>> ]

ClientReturn(list) ==
    [ kind |-> "return", exc |-> "", fmt |-> "", detail |-> "", articles |-> list ]

ClientNoReturn ==
    [ kind |-> "none", exc |-> "", fmt |-> "", detail |-> "", articles |-> <<>> ]

\* _make_request after the rate limiter: RequestException and ValueError are
\* turned into GuardianAPIError, a status other than "ok" raises
\* GuardianAPIError, anything else raised inside the try block goes through
make_request(t) ==
    IF t.kind \in {"ConnectionError", "Timeout", "HTTPError"}
    THEN ClientRaise(GuardianAPIError, "Failed to make request to Guardian API: {}", t.kind)
    ELSE IF t.kind = "InvalidJSON"
    THEN ClientRaise(GuardianAPIError, "Invalid JSON response from Guardian API: {}", t.kind)
    ELSE IF t.top # "object"
    THEN ClientRaise(AttributeError, "object has no attribute 'get'", t.top)
    ELSE IF t.response = "null"
    THEN ClientRaise(AttributeError, "object has no attribute 'get'", "NoneType")
    ELSE IF t.response = "missing" \/ t.status # "ok"
    THEN ClientRaise(GuardianAPIError, "Guardian API error: {}",
                     IF t.response = "missing" \/ t.message = "missing"
                     THEN "Unknown API error" ELSE t.message)
    ELSE IF t.results_kind = "null"
    THEN ClientRaise(TypeError, "object has no len()", "NoneType")
    ELSE ClientReturn(t.results)

\* a preview that adds the marker from the limit on
content_preview_MarkerAtLimit(body_text) ==
    LET head == SubSeq(body_text, 1, IF Len(body_text) < PreviewLimit
                                     THEN Len(body_text) ELSE PreviewLimit)
    IN  IF Len(body_text) >= PreviewLimit THEN head \o << ".", ".", "." >> ELSE head

\* body_text[:1000], and "..." appended when the text is longer
content_preview(body_text) ==
    LET head == SubSeq(body_text, 1, IF Len(body_text) < PreviewLimit
                                     THEN Len(body_text) ELSE PreviewLimit)
    IN  IF Len(body_text) > PreviewLimit THEN head \o << ".", ".", "." >> ELSE head

\* one raw result turned into an article
format_article(raw) ==
    LET body_text == IF raw.fields THEN raw.bodyText ELSE <<>> IN
    [ webUrl |-> raw.webUrl,
      has_preview |-> body_text # <<>>,
      content_preview |-> IF body_text # <<>> THEN content_preview(body_text) ELSE <<>> ]

\* an article list that comes out in reverse order
format_articles_Reversed(list) ==
    [i \in 1..Len(list) |-> format_article(list[Len(list) + 1 - i])]

\* the loop over the raw results: one article for each, in the same order
format_articles(list) == [i \in 1..Len(list) |-> format_article(list[i])]

\* search_content after its checks: the request, then the mapping of the results
search_request(t) ==
    LET m == make_request(t) IN
    IF m.kind = "raise" THEN m ELSE ClientReturn(format_articles(m.articles))

\* search_content as a whole, for the response t the transport would give
search_content(term, date, page_size, t) ==
    LET v == search_validate(term, date, page_size) IN
    IF v.type # "none" THEN ClientRaise(v.type, v.msg, "") ELSE search_request(t)

(* ------------------------------ publishers ------------------------------ *)
StreamNames == { "", "guardian-content" }

StreamStatuses == { "ACTIVE", "UPDATING", "CREATING", "DELETING" }

\* what AWS does at construction: boto3.client returns or raises, and
\* describe_stream returns a description with a status, returns a response
\* without one, or raises
AwsStates ==
    { [client |-> c, describe |-> "none", status |-> "", code |-> ""] :
        c \in {NoCredentialsError, ClientError, OtherException} }
    \cup { [client |-> "ok", describe |-> "return", status |-> st, code |-> ""] :
              st \in StreamStatuses }
    \cup { [client |-> "ok", describe |-> ClientError, status |-> "", code |-> c] :
              c \in {"ResourceNotFoundException", "AccessDeniedException"} }
    \cup { [client |-> "ok", describe |-> e, status |-> "", code |-> ""] :
              e \in {NoCredentialsError, KeyError, OtherException} }

\* a raised exception: its class and its message, outermost text first
Failure(exc, msg) == [kind |-> "raise", exc |-> exc, msg |-> msg]

Success == [kind |-> "return", exc |-> "", msg |-> <<>>]

\* a verification that lets streams in any state but DELETING through
verify_stream_exists_NotDeleting(aws) ==
    IF aws.describe = "return"
    THEN IF aws.status # "DELETING"
         THEN Success
         ELSE Failure(MessageBrokerError, << "Kinesis stream '{}' is not active. Status: {}" >>)
    ELSE IF aws.describe = ClientError
    THEN IF aws.code = "ResourceNotFoundException"
         THEN Failure(MessageBrokerError, << "Kinesis stream '{}' does not exist" >>)
         ELSE Failure(MessageBrokerError, << "Failed to verify stream existence: {}" >>)
    ELSE Failure(aws.describe, << aws.describe >>)

\* KinesisPublisher._verify_stream_exists: only ClientError is caught here
verify_stream_exists(aws) ==
    IF aws.describe = "return"
    THEN IF aws.status \notin {"ACTIVE", "UPDATING"}
         THEN Failure(MessageBrokerError, << "Kinesis stream '{}' is not active. Status: {}" >>)
         ELSE Success
    ELSE IF aws.describe = ClientError
    THEN IF aws.code = "ResourceNotFoundException"
         THEN Failure(MessageBrokerError, << "Kinesis stream '{}' does not exist" >>)
         ELSE Failure(MessageBrokerError, << "Failed to verify stream existence: {}" >>)
    ELSE Failure(aws.describe, << aws.describe >>)

\* KinesisPublisher.__init__: ValueError for an empty name; whatever is
\* raised inside the try block leaves as MessageBrokerError, the errors of
\* _verify_stream_exists through "except Exception" with their text kept
kinesis_init(stream_name, aws) ==
    IF stream_name = ""
    THEN Failure(ValueError, << "Stream name cannot be empty" >>)
    ELSE LET inner == IF aws.client # "ok"
                      THEN Failure(aws.client, << aws.client >>)
                      ELSE verify_stream_exists(aws)
         IN  IF inner.kind = "return" THEN Success
             ELSE IF inner.exc = NoCredentialsError
             THEN Failure(MessageBrokerError, << "AWS credentials not found" >>)
             ELSE IF inner.exc = ClientError
             THEN Failure(MessageBrokerError, << "Failed to create Kinesis client: {}" >> \o inner.msg)
             ELSE Failure(MessageBrokerError,
                          << "Unexpected error creating Kinesis client: {}" >> \o inner.msg)

NoPublisher ==
    [ class |-> "none", client |-> "unset", status |-> "", published_messages |-> <<>> ]

KinesisInstance(status) ==
    [ class |-> "KinesisPublisher", client |-> "client", status |-> status,
      published_messages |-> <<>> ]

MockInstance ==
    [ class |-> "MockPublisher", client |-> "unset", status |-> "",
      published_messages |-> <<>> ]

PubReturn(k) == [kind |-> "return", k |-> k, exc |-> "", msg |-> <<>>]

PubRaise(exc, msg) == [kind |-> "raise", k |-> 0, exc |-> exc, msg |-> msg]

\* the message lists of the model: articles 1..n
MessageLists == { ArticleList(n) : n \in 0..MaxBatch }

\* the single messages of the model
Messages == 1..MaxBatch

\* MockPublisher.publish_message: the message is appended, True returned
mock_publish_message(pub, m) ==
    [ pub |-> [pub EXCEPT !.published_messages = Append(@, m)], out |-> PubReturn(1) ]

\* a publish_batch that puts the new messages in front of the list
mock_publish_batch_Prepends(pub, messages) ==
    [ pub |-> [pub EXCEPT !.published_messages = messages \o @],
      out |-> PubReturn(Len(messages)) ]

\* MockPublisher.publish_batch: the list is extended, its length returned
mock_publish_batch(pub, messages) ==
    [ pub |-> [pub EXCEPT !.published_messages = @ \o messages],
      out |-> PubReturn(Len(messages)) ]

\* MockPublisher.clear_messages
mock_clear_messages(pub) ==
    [ pub |-> [pub EXCEPT !.published_messages = <<>>], out |-> PubReturn(0) ]

\* what put_record does on a live client
PutRecordOutcomes == { "ok", ClientError, OtherException }

\* what put_records does on a live client, given n records: it reports a
\* number of failed records, or raises
PutRecordsOutcomes(n) ==
    { [kind |-> "return", failed |-> f, exc |-> ""] : f \in 0..n }
    \cup { [kind |-> "raise", failed |-> 0, exc |-> e] : e \in {ClientError, OtherException} }

\* KinesisPublisher.publish_message: a closed publisher has client None, the
\* attribute access fails and "except Exception" makes it MessageBrokerError
kinesis_publish_message(pub, o) ==
    IF pub.client # "client"
    THEN PubRaise(MessageBrokerError, << "Unexpected error: {}", AttributeError >>)
    ELSE IF o = "ok" THEN PubReturn(1)
    ELSE IF o = ClientError
    THEN PubRaise(MessageBrokerError, << "Failed to publish message: {}", o >>)
    ELSE PubRaise(MessageBrokerError, << "Unexpected error: {}", o >>)

\* KinesisPublisher.publish_batch: 0 for an empty list before anything else
kinesis_publish_batch(pub, n, o) ==
    IF n = 0 THEN PubReturn(0)
    ELSE IF pub.client # "client"
    THEN PubRaise(MessageBrokerError, << "Unexpected error: {}", AttributeError >>)
    ELSE IF o.kind = "return" THEN PubReturn(n - o.failed)
    ELSE IF o.exc = ClientError
    THEN PubRaise(MessageBrokerError, << "Failed to publish batch: {}", o.exc >>)
    ELSE PubRaise(MessageBrokerError, << "Unexpected error: {}", o.exc >>)

\* a close() that fails on a publisher without a client
publisher_close_RaisesWhenClosed(pub) ==
    IF pub.class = "KinesisPublisher"
    THEN IF pub.client = "client"
         THEN [ pub |-> [pub EXCEPT !.client = "None"], out |-> PubReturn(0) ]
         ELSE [ pub |-> pub, out |-> PubRaise(AttributeError, << AttributeError >>) ]
    ELSE [ pub |-> pub, out |-> PubReturn(0) ]

\* close(): KinesisPublisher drops the client reference (the attribute is
\* always there on an instance), MockPublisher only logs
publisher_close(pub) ==
    IF pub.class = "KinesisPublisher"
    THEN [ pub |-> [pub EXCEPT !.client = "None"], out |-> PubReturn(0) ]
    ELSE [ pub |-> pub, out |-> PubReturn(0) ]

\* the arguments of a call that is not a construction
NoConstruction ==
    [ stream_name |-> "", aws |-> [client |-> "", describe |-> "", status |-> "", code |-> ""] ]

\* one call on the publisher as p_ret keeps it: the method, the length of
\* the message list, the constructor's arguments, the instance before the
\* call and the outcome
PubCall(op, n, arg, before, out) ==
    [ op |-> op, n |-> n, arg |-> arg, before |-> before, kind |-> out.kind,
      k |-> out.k, exc |-> out.exc, msg |-> out.msg ]

NoPubCall == PubCall("none", 0, NoConstruction, NoPublisher, PubReturn(0))

(* ------------------- the publish calls of KinesisPublisher -------------- *)
Min(a, b) == IF a < b THEN a ELSE b

\* a text of n characters c
Rep(n, c) == [i \in 1..n |-> c]

\* a character that takes two bytes in UTF-8, such as e-acute
TwoByteChar == "e-acute"

\* the length of a text in UTF-8
Utf8Len(s) == Len(s) + Cardinality({ i \in 1..Len(s) : s[i] = TwoByteChar })

\* the "webTitle" of a message: the key is missing, holds null, or a text
Title(kind, text) == [kind |-> kind, text |-> text]

Titles ==
    { Title("missing", <<>>), Title("null", <<>>) }
    \cup { Title("str", Rep(n, "a")) :
             n \in { 0, 1, PartitionKeyLimit, PartitionKeyLimit + 1, PartitionKeyLimit + 44 } }
    \cup { Title("str", Rep(n, TwoByteChar)) :
             n \in { PartitionKeyLimit \div 2, PartitionKeyLimit \div 2 + 1, PartitionKeyLimit } }

Message(id, title) == [id |-> id, webTitle |-> title]

\* a list of n messages with one-letter titles
PlainMessages(n) == [i \in 1..n |-> Message(i, Title("str", << "a" >>))]

\* the list lengths around the multiples of the batch size
BatchLengths ==
    { 0, 2 } \cup { c * KinesisBatchSize + d : c \in 1..MaxChunks, d \in { -1, 0, 1 } }

\* the message lists a publish call is given: one message with any title,
\* two messages of which the second has no usable title, and plain lists
KinesisInputs ==
    { << Message(1, t) >> : t \in Titles }
    \cup { << Message(1, Title("str", << "a" >>)), Message(2, t) >> :
             t \in { Title("missing", <<>>), Title("null", <<>>) } }
    \cup { PlainMessages(n) : n \in BatchLengths }

\* json.dumps(message, ensure_ascii=False).encode("utf-8")
json_dumps(m) == [json |-> m]

DefaultKey == << "d", "e", "f", "a", "u", "l", "t" >>

\* message.get("webTitle", "default")[:256]: the default only for a missing
\* key, TypeError for null, the first 256 characters otherwise
partition_key(m) ==
    IF m.webTitle.kind = "missing"
    THEN [kind |-> "return", key |-> DefaultKey, exc |-> ""]
    ELSE IF m.webTitle.kind = "null"
    THEN [kind |-> "raise", key |-> <<>>, exc |-> TypeError]
    ELSE [kind |-> "return", exc |-> "",
          key |-> SubSeq(m.webTitle.text, 1, Min(Len(m.webTitle.text), PartitionKeyLimit))]

Record(m) == [Data |-> json_dumps(m), PartitionKey |-> partition_key(m).key]

\* a loop that starts each batch one message after the end of the last
batch_of_SkipsOne(msgs, i) ==
    SubSeq(msgs, i + 1 + i \div KinesisBatchSize, Min(i + KinesisBatchSize, Len(msgs)))

\* messages[i:i + batch_size]
batch_of(msgs, i) == SubSeq(msgs, i + 1, Min(i + KinesisBatchSize, Len(msgs)))

\* the records of one batch, or the exception the preparation ends with
prepare_records(batch) ==
    IF \E j \in 1..Len(batch) : partition_key(batch[j]).kind = "raise"
    THEN [kind |-> "raise", records |-> <<>>, exc |-> TypeError]
    ELSE [kind |-> "return", records |-> [j \in 1..Len(batch) |-> Record(batch[j])],
          exc |-> ""]

\* what put_records answers for n records, by sample: no, one, all but one
\* or all records failed, or the call raises
PutRecordsSamples(n) ==
    { o \in PutRecordsOutcomes(n) : o.kind = "return" /\ o.failed \in { 0, 1, n - 1, n } }
    \cup { o \in PutRecordsOutcomes(n) : o.kind = "raise" }

\* len(records) - response.get("FailedRecordCount", 0)
batch_successful(n, o) == n - o.failed

\* a publish_batch that hands back the count so far when a call fails
batch_failure_ReturnsCount(exc, count) == PubReturn(count)

\* the except clauses of publish_batch
batch_failure(exc, count) ==
    IF exc = ClientError
    THEN PubRaise(MessageBrokerError, << "Failed to publish batch: {}", exc >>)
    ELSE PubRaise(MessageBrokerError, << "Unexpected error: {}", exc >>)

\* one underlying call as k_calls keeps it
KinesisCall(op, records, o) ==
    [ op |-> op, records |-> records, kind |-> o.kind, failed |-> o.failed, exc |-> o.exc ]

PubNoReturn == [kind |-> "none", k |-> 0, exc |-> "", msg |-> <<>>]

(* ----------------- the collaborators a coordinator holds ---------------- *)
\* what search_content gives the coordinator, as the log keeps it
CoordinatorView(c) ==
    IF c.kind = "return"
    THEN [kind |-> "return", n |-> Len(c.articles), k |-> Len(c.articles), exc |-> ""]
    ELSE [kind |-> "raise", n |-> 0, k |-> 0, exc |-> c.exc]

\* api_client.search_content(term, date, page_size): any response of the
\* interface, or what GuardianAPIClient makes of what the transport gives
SearchResponsesOf(class, term, date, page_size) ==
    IF class = "GuardianAPIClient"
    THEN { CoordinatorView(search_content(term, date, page_size, t)) : t \in Transports }
    ELSE SearchResponses

BrokerView(r) == [kind |-> r.kind, k |-> r.k, exc |-> r.exc]

\* message_broker.publish_batch on n articles
BatchResponsesOf(class, n) ==
    IF class = "KinesisPublisher"
    THEN { BrokerView(kinesis_publish_batch(KinesisInstance("ACTIVE"), n, o)) :
             o \in PutRecordsOutcomes(n) }
    ELSE IF class = "MockPublisher" THEN { BrokerView(PubReturn(n)) }
    ELSE BatchResponses(n)

\* message_broker.publish_message on one article
MessageOutcomesOf(class) ==
    IF class = "KinesisPublisher"
    THEN { BrokerView(kinesis_publish_message(KinesisInstance("ACTIVE"), o)) :
             o \in PutRecordOutcomes }
    ELSE IF class = "MockPublisher" THEN { BrokerView(PubReturn(1)) }
    ELSE MessageOutcomes

\* message_broker.close()
CloseOutcomesOf(class) ==
    IF class \in {"KinesisPublisher", "MockPublisher"}
    THEN { BrokerView(publisher_close(IF class = "KinesisPublisher"
                                      THEN KinesisInstance("ACTIVE") ELSE MockInstance).out) }
    ELSE CloseOutcomes

(* ---------------------------- Lambda handler ---------------------------- *)
\* the "search_term" of an event: missing, empty, blank or a word
EventTerms ==
    { [given |-> FALSE, text |-> <<>>] }
    \cup { [given |-> TRUE, text |-> t] : t \in { <<>>, <<" ">>, <<"a">> } }

\* the "max_articles" of an event: missing, a JSON integer, a JSON string
\* or null
EventMaxArticles ==
    { [kind |-> "missing", n |-> 0, text |-> <<>>], [kind |-> "null", n |-> 0, text |-> <<>>] }
    \cup { [kind |-> "int", n |-> n, text |-> <<>>] : n \in {0, 1, 50, 51} }
    \cup { [kind |-> "str", n |-> 0, text |-> t] : t \in { <<"5">>, <<"i", "n", "v">> } }

EventDates == { None, "2023-01-01", "2023-13-01", "2023-1-5" }

Events ==
    { [search_term |-> t, date_from |-> d, max_articles |-> m] :
        t \in EventTerms, d \in EventDates, m \in EventMaxArticles }

\* the environment: GUARDIAN_API_KEY set or not, USE_MOCK_BROKER true or
\* not, KINESIS_STREAM_NAME unset, empty or set, GUARDIAN_RATE_LIMIT_DELAY
\* a number or not
Envs ==
    { [api_key |-> k, use_mock |-> u, stream_name |-> n, delay_ok |-> f] :
        k \in BOOLEAN, u \in BOOLEAN, n \in {"unset", "", "guardian-content"},
        f \in BOOLEAN }

\* int(event.get("max_articles", 10))
int_max_articles(m) ==
    IF m.kind = "missing" THEN [kind |-> "return", n |-> 10, exc |-> ""]
    ELSE IF m.kind = "int" THEN [kind |-> "return", n |-> m.n, exc |-> ""]
    ELSE IF m.kind = "null" THEN [kind |-> "raise", n |-> 0, exc |-> TypeError]
    ELSE IF m.text # <<>> /\ AllDigits(m.text)
    THEN [kind |-> "return", n |-> ToInt(m.text), exc |-> ""]
    ELSE [kind |-> "raise", n |-> 0, exc |-> ValueError]

\* os.getenv('KINESIS_STREAM_NAME', 'guardian-content')
kinesis_stream_name(e) ==
    IF e.stream_name = "unset" THEN "guardian-content" ELSE e.stream_name

\* load_config_from_env: ConfigurationError, or a configuration whose
\* kinesis_config is None when the mock broker is asked for
load_config_from_env(e) ==
    IF ~e.api_key
    THEN Failure(ConfigurationError, << "GUARDIAN_API_KEY environment variable is required" >>)
    ELSE IF ~e.delay_ok
    THEN Failure(ConfigurationError,
                 << "Failed to load configuration from environment: {}", ValueError >>)
    ELSE IF ~e.use_mock /\ kinesis_stream_name(e) = ""
    THEN Failure(ConfigurationError, << "Kinesis stream name is required" >>)
    ELSE Success

\* GuardianContentFetcherFactory.create_with_kinesis: any error of the two
\* constructors leaves as GuardianContentFetcherError
create_with_kinesis(stream_name, aws) ==
    LET k == kinesis_init(stream_name, aws) IN
    IF k.kind = "raise"
    THEN Failure(GuardianContentFetcherError,
                 << "Failed to create fetcher with Kinesis: {}" >> \o k.msg)
    ELSE Success

\* the handler up to the with-block: the stage at which it stops and the
\* exception raised there, or stage "fetch" and the value of max_articles
handler_prepare(ev, e, aws) ==
    LET m == int_max_articles(ev.max_articles)
        c == load_config_from_env(e)
        f == create_with_kinesis(kinesis_stream_name(e), aws)
    IN  IF ~ev.search_term.given \/ ev.search_term.text = <<>>
        THEN [stage |-> "params", exc |-> ValueError, max_articles |-> 0]
        ELSE IF m.kind = "raise"
        THEN [stage |-> "params", exc |-> m.exc, max_articles |-> 0]
        ELSE IF c.kind = "raise"
        THEN [stage |-> "config", exc |-> c.exc, max_articles |-> 0]
        ELSE IF e.use_mock
        THEN [stage |-> "config", exc |-> EnvironmentError, max_articles |-> 0]
        ELSE IF f.kind = "raise"
        THEN [stage |-> "construction", exc |-> f.exc, max_articles |-> 0]
        ELSE [stage |-> "fetch", exc |-> "", max_articles |-> m.n]

\* except clauses that answer 400 to everything
handler_status_AlwaysBadRequest(exc) == 400

\* the except clauses of the handler
handler_status(exc) ==
    IF exc \in {ValueError, EnvironmentError, ConfigurationError} THEN 400
    ELSE IF exc = GuardianContentFetcherError THEN 500
    ELSE 500

ErrorResponse(exc) ==
    [ statusCode |-> handler_status(exc), body |-> "error", error |-> exc,
      result |-> InitialResult(<<>>, None) ]

ResultResponse(res) ==
    [ statusCode |-> 200, body |-> "result", error |-> "", result |-> res ]

NoHandlerResponse ==
    [ statusCode |-> 0, body |-> "none", error |-> "", result |-> InitialResult(<<>>, None) ]

(* ------------------------ command-line entry point --------------------- *)
CliModes == { "argument", "interactive" }

\* what the user gives as max_articles: nothing, digits, or other text
CliMaxArticles == { m \in EventMaxArticles : m.kind # "null" }

\* the arguments of a run, or the answers to the prompts; a date_from of ""
\* is a date filter not given
CliArgs ==
    { [search_term |-> t, date_from |-> d, max_articles |-> m, use_mock |-> u] :
        t \in ClientTerms, d \in { "", "2023-01-01", "2023-13-01", "2023-1-5" },
        m \in CliMaxArticles, u \in BOOLEAN }

\* the environments of a run: GUARDIAN_RATE_LIMIT_DELAY and USE_MOCK_BROKER
\* are left unset
CliEnvs == { e \in Envs : e.delay_ok /\ ~e.use_mock }

\* the user's part in a run: none, or Ctrl-C at a prompt
UserActions == { "none", KeyboardInterrupt }

\* validate_configuration: CLIError, or nothing
validate_configuration(term, date, maxa, use_mock, stream_name) ==
    IF term = <<>> \/ strip(term) = <<>>
    THEN Failure(CLIError, << "Search term cannot be empty" >>)
    ELSE IF maxa < 1 \/ maxa > MaxArticlesLimit
    THEN Failure(CLIError, << "max_articles must be between 1 and 50" >>)
    ELSE IF DateProvided(date) /\ ~strptime(DateText(date))
    THEN Failure(CLIError, << "date_from must be in YYYY-MM-DD format" >>)
    ELSE IF ~use_mock /\ stream_name = ""
    THEN Failure(CLIError, << "Kinesis stream name is required when not using mock" >>)
    ELSE Success

\* a run that stops at a stage with a code, before fetch_and_publish
CliStop(stage, code) ==
    [ stage |-> stage, code |-> code, term |-> <<>>, date |-> None, max_articles |-> 0 ]

\* load_configuration, validate_configuration and the factory call of
\* run_fetch_and_publish: the stage at which the run stops with CLIError, or
\* stage "fetch" and the arguments of fetch_and_publish
cli_configure(term, date, maxa, use_mock, e, aws) ==
    LET c == load_config_from_env(e)
        v == validate_configuration(term, date, maxa, use_mock, kinesis_stream_name(e))
        f == IF use_mock THEN Success ELSE create_with_kinesis(kinesis_stream_name(e), aws)
    IN  IF c.kind = "raise" THEN CliStop("config", 1)
        ELSE IF v.kind = "raise" THEN CliStop("validation", 1)
        ELSE IF f.kind = "raise" THEN CliStop("construction", 1)
        ELSE [ stage |-> "fetch", code |-> 0, term |-> term,
               date |-> IF date = "" THEN None ELSE date, max_articles |-> maxa ]

\* main in argument mode up to fetch_and_publish: the parser leaves with
\* SystemExit(2) when max_articles is not an integer
argument_mode(a, e, aws) ==
    LET m == int_max_articles(a.max_articles) IN
    IF m.kind = "raise" THEN CliStop("usage", 2)
    ELSE cli_configure(a.search_term, a.date_from, m.n, a.use_mock, e, aws)

\* run_interactive_mode up to fetch_and_publish: the prompts and their checks
interactive_mode(a, e, aws, user) ==
    LET m == int_max_articles(a.max_articles) IN
    IF user = KeyboardInterrupt THEN CliStop("input", 1)
    ELSE IF strip(a.search_term) = <<>> THEN CliStop("input", 1)
    ELSE IF a.date_from # "" /\ Len(DateText(a.date_from)) # 10 THEN CliStop("input", 1)
    ELSE IF m.kind = "raise" THEN CliStop("input", 1)
    ELSE cli_configure(strip(a.search_term), a.date_from, m.n, a.use_mock, e, aws)

\* the code after run_fetch_and_publish, in run_interactive_mode and in the
\* argument branch of main alike: 0 for a result with success, 1 for a result
\* without and for every exception
result_code(r) == IF r.kind = "result" /\ r.value.success THEN 0 ELSE 1

\* main: "run_interactive_mode(); return 0" without arguments, otherwise the
\* code of the argument branch
main_exit_code(mode, code) == IF mode = "interactive" THEN 0 ELSE code

(* ------------------------------ actions --------------------------------- *)
\* a coordinator after __init__, before its first call
CoordInit ==
    /\ pc = "idle"
    /\ search_term = <<>>
    /\ date_from = None
    /\ max_articles = 10
    /\ articles = <<>>
    /\ result = InitialResult(<<>>, None)
    /\ published_count = 0
    /\ idx = 1
    /\ log = <<>>
    /\ ret = NoReturn
    /\ ncalls = 0
    /\ previous = "none"
    /\ api_client = "abstract"
    /\ message_broker = "abstract"

ScopeInit ==
    /\ scope = "none"
    /\ close_log = <<>>
    /\ propagated = NoError

\* GuardianAPIClient.__init__ at time StartTime
ClientInit(delay) ==
    /\ now = StartTime
    /\ rate_limit_delay = delay
    /\ last_request_time = 0
    /\ c_pc = "idle"
    /\ c_args = [term |-> <<>>, date |-> None, page_size |-> 10]
    /\ requests = <<>>
    /\ response = NoResponse
    /\ c_ret = ClientNoReturn
    /\ c_ncalls = 0

\* no publisher has been constructed
PublisherInit ==
    /\ publisher = NoPublisher
    /\ p_ret = NoPubCall
    /\ p_closes = 0
    /\ p_nops = 0
    /\ p_sent = <<>>

\* the handler has not been invoked
HandlerInit ==
    /\ h_pc = "idle"
    /\ event = [search_term |-> [given |-> FALSE, text |-> <<>>], date_from |-> None,
                max_articles |-> [kind |-> "missing", n |-> 0, text |-> <<>>]]
    /\ env = [api_key |-> FALSE, use_mock |-> FALSE, stream_name |-> "unset", delay_ok |-> TRUE]
    /\ h_stage = "none"
    /\ h_response = NoHandlerResponse

\* no publish call has been made on the messages msgs
KinesisInit(msgs) ==
    /\ k_pc = "idle"
    /\ k_op = "none"
    /\ k_messages = msgs
    /\ k_offset = 0
    /\ successful_count = 0
    /\ k_calls = <<>>
    /\ k_ret = PubNoReturn

\* main has not been called
CliInit ==
    /\ cli_pc = "idle"
    /\ cli_mode = "argument"
    /\ cli_args = [search_term |-> <<>>, date_from |-> "", use_mock |-> FALSE,
                   max_articles |-> [kind |-> "missing", n |-> 0, text |-> <<>>]]
    /\ cli_stage = "none"
    /\ interactive_code = -1
    /\ exit_code = -1

\* no response is being mapped
PreviewInit(list) ==
    /\ raw_results = list
    /\ formatted = [done |-> FALSE, articles |-> <<>>]

Init ==
    /\ CoordInit
    /\ ScopeInit
    /\ ClientInit(DefaultRateLimitDelay)
    /\ PreviewInit(<<>>)
    /\ PublisherInit
    /\ HandlerInit
    /\ CliInit
    /\ KinesisInit(<<>>)

\* how an invocation ended, as the next invocation on the instance finds it
OutcomeClass(r) ==
    IF r.kind = "none" THEN "none"
    ELSE IF r.kind = "raise" THEN "raised"
    ELSE IF ~r.value.success THEN "failed"
    ELSE IF r.value.errors # <<>> THEN "partial"
    ELSE "full"

\* an entry that keeps the error entries of the result before
CallWith_KeepsErrors(term, date, maxa) ==
    LET v == validate_inputs(term, maxa) IN
    /\ search_term' = term
    /\ date_from' = date
    /\ max_articles' = maxa
    /\ result' = [InitialResult(term, date) EXCEPT !.errors = result.errors]
    /\ IF v.type = "none"
       THEN /\ pc' = "fetch"
            /\ ret' = NoReturn
       ELSE /\ pc' = "done"
            /\ ret' = Raised(HandleException(v.type))
    /\ articles' = <<>>
    /\ published_count' = 0
    /\ idx' = 1
    /\ log' = <<>>
    /\ ncalls' = ncalls + 1
    /\ previous' = OutcomeClass(ret)

\* fetch_and_publish is entered: result initialised, inputs validated
CallWith(term, date, maxa) ==
    LET v == validate_inputs(term, maxa) IN
    /\ search_term' = term
    /\ date_from' = date
    /\ max_articles' = maxa
    /\ result' = InitialResult(term, date)
    /\ IF v.type = "none"
       THEN /\ pc' = "fetch"
            /\ ret' = NoReturn
       ELSE /\ pc' = "done"
            /\ ret' = Raised(HandleException(v.type))
    /\ articles' = <<>>
    /\ published_count' = 0
    /\ idx' = 1
    /\ log' = <<>>
    /\ ncalls' = ncalls + 1
    /\ previous' = OutcomeClass(ret)

\* fetch_and_publish is called on the coordinator, inside or outside a with-block
Call ==
    /\ pc \in {"idle", "done"}
    /\ ncalls < MaxCalls
    /\ scope # "exited"
    /\ ~(scope = "entered" /\ ret.kind = "raise")
    /\ \E term \in SearchTerms, date \in DateFroms, maxa \in MaxArticlesInputs :
         CallWith(term, date, maxa)
    /\ UNCHANGED << api_client, message_broker >>
    /\ UNCHANGED scopeVars
    /\ UNCHANGED outerVars

\* _fetch_articles: the one call of api_client.search_content, and the
\* early return of fetch_and_publish when the list is empty
Fetch ==
    /\ pc = "fetch"
    /\ \E r \in SearchResponsesOf(api_client, search_term, date_from, max_articles) :
         /\ log' = Append(log, LogEntry("search_content", max_articles, r))
         /\ CASE FetchOutcome(r) = "raise" ->
                   /\ pc' = "done"
                   /\ ret' = Raised(HandleException(r.exc))
                   /\ UNCHANGED << articles, result >>
              [] FetchOutcome(r) = "empty" ->
                   /\ articles' = ArticleList(r.n)
                   /\ result' = EmptyResult(result)
                   /\ pc' = "done"
                   /\ ret' = Returned(result')
              [] OTHER ->
                   /\ articles' = ArticleList(r.n)
                   /\ result' = [result EXCEPT !.articles_found = r.n]
                   /\ pc' = "publish"
                   /\ UNCHANGED ret
    /\ UNCHANGED << search_term, date_from, max_articles, published_count, idx, ncalls,
                    previous, api_client, message_broker >>
    /\ UNCHANGED scopeVars
    /\ UNCHANGED outerVars

\* _publish_articles: the call of message_broker.publish_batch; unless the
\* fallback is taken, fetch_and_publish fills in the result and returns it
PublishBatch ==
    /\ pc = "publish"
    /\ IF articles = <<>>
       THEN /\ result' = DetermineSuccess(result, 0, Len(articles))
            /\ pc' = "done"
            /\ ret' = Returned(result')
            /\ UNCHANGED << log, published_count, idx >>
       ELSE \E r \in BatchResponsesOf(message_broker, Len(articles)) :
            /\ log' = Append(log, LogEntry("publish_batch", Len(articles), r))
            /\ CASE BatchOutcome(r, Len(articles)) = "raise" ->
                      /\ pc' = "done"
                      /\ ret' = Raised(HandleException(PublishArticlesRaises(r.exc)))
                      /\ UNCHANGED << result, published_count, idx >>
                 [] BatchOutcome(r, Len(articles)) = "return" ->
                      /\ result' = DetermineSuccess(result, r.k, Len(articles))
                      /\ pc' = "done"
                      /\ ret' = Returned(result')
                      /\ UNCHANGED << published_count, idx >>
                 [] OTHER ->
                      /\ pc' = "individual"
                      /\ published_count' = 0
                      /\ idx' = 1
                      /\ UNCHANGED << result, ret >>
    /\ UNCHANGED << search_term, date_from, max_articles, articles, ncalls,
                    previous, api_client, message_broker >>
    /\ UNCHANGED scopeVars
    /\ UNCHANGED outerVars

\* one iteration of _publish_articles_individually; after the last one the
\* count goes back to fetch_and_publish, which fills in the result and returns it
PublishIndividually ==
    /\ pc = "individual"
    /\ idx <= Len(articles)
    /\ \E o \in MessageOutcomesOf(message_broker) :
         /\ log' = Append(log, LogEntry("publish_message", articles[idx], o))
         /\ published_count' = CountIndividual(published_count, o)
         /\ idx' = idx + 1
         /\ IF idx = Len(articles)
            THEN /\ result' = DetermineSuccess(result, published_count', Len(articles))
                 /\ pc' = "done"
                 /\ ret' = Returned(result')
            ELSE UNCHANGED << result, pc, ret >>
    /\ UNCHANGED << search_term, date_from, max_articles, articles, ncalls,
                    previous, api_client, message_broker >>
    /\ UNCHANGED scopeVars
    /\ UNCHANGED outerVars

\* __enter__: the with-block is entered, the coordinator itself is the target
EnterScope ==
    /\ scope = "none"
    /\ pc = "idle"
    /\ scope' = "entered"
    /\ UNCHANGED << close_log, propagated >>
    /\ UNCHANGED coordVars
    /\ UNCHANGED outerVars

\* __exit__: the body is left, normally or by the exception fetch_and_publish
\* raised; close() runs and the body's exception, if any, goes on to the caller
ExitScope ==
    /\ scope = "entered"
    /\ pc \in {"idle", "done"}
    /\ \E o \in CloseOutcomesOf(message_broker) :
         LET x == exit_scope(BodyException(ret), o) IN
         /\ close_log' = close_log \o x.closed
         /\ propagated' = x.propagated
    /\ scope' = "exited"
    /\ UNCHANGED coordVars
    /\ UNCHANGED outerVars

(* ------------------------ search client actions ------------------------ *)
\* time passes
Tick ==
    /\ now < MaxClock
    /\ now' = now + 1
    /\ UNCHANGED << rate_limit_delay, last_request_time, c_pc, c_args, requests,
                    response, c_ret, c_ncalls >>
    /\ UNCHANGED << coordVars, scopeVars, previewVars, publisherVars, handlerVars, cliVars,
                    kinesisVars >>

\* search_content is called: the checks, and for arguments that pass them
\* the rate limiter's sleep and the start of the remote request
SearchContent ==
    /\ c_pc = "idle"
    /\ c_ncalls < MaxSearches
    /\ \E term \in ClientTerms, date \in ClientDates, page_size \in PageSizes :
         LET v == search_validate(term, date, page_size)
             w == wait_time(now, last_request_time, rate_limit_delay)
         IN  /\ c_args' = [term |-> term, date |-> date, page_size |-> page_size]
             /\ IF v.type # "none"
                THEN /\ c_ret' = ClientRaise(v.type, v.msg, "")
                     /\ UNCHANGED << now, last_request_time, requests, c_pc >>
                ELSE /\ now' = now + w
                     /\ last_request_time' = now + w
                     /\ requests' = Append(requests,
                                           [ called |-> now, start |-> now + w,
                                             out |-> "pending" ])
                     /\ c_pc' = "request"
                     /\ c_ret' = ClientNoReturn
    /\ response' = NoResponse
    /\ c_ncalls' = c_ncalls + 1
    /\ UNCHANGED rate_limit_delay
    /\ UNCHANGED << coordVars, scopeVars, previewVars, publisherVars, handlerVars, cliVars,
                    kinesisVars >>

\* the remote request ends: search_content returns the articles or raises
Respond ==
    /\ c_pc = "request"
    /\ \E t \in Transports :
         /\ response' = t
         /\ c_ret' = search_request(t)
    /\ requests' = [requests EXCEPT ![Len(requests)].out = c_ret'.kind]
    /\ c_pc' = "idle"
    /\ UNCHANGED << now, rate_limit_delay, last_request_time, c_args, c_ncalls >>
    /\ UNCHANGED << coordVars, scopeVars, previewVars, publisherVars, handlerVars, cliVars,
                    kinesisVars >>

InitClient ==
    /\ CoordInit
    /\ ScopeInit
    /\ \E delay \in RateLimitDelays : ClientInit(delay)
    /\ PreviewInit(<<>>)
    /\ PublisherInit
    /\ HandlerInit
    /\ CliInit
    /\ KinesisInit(<<>>)

NextClient == Tick \/ SearchContent \/ Respond

SpecClient == InitClient /\ [][NextClient]_vars

(* ------------------------- mapping of the results ------------------------ *)
\* the loop of search_content over the "results" of one response
FormatArticles ==
    /\ ~formatted.done
    /\ formatted' = [done |-> TRUE, articles |-> format_articles(raw_results)]
    /\ UNCHANGED raw_results
    /\ UNCHANGED << coordVars, scopeVars, clientVars, publisherVars, handlerVars, cliVars,
                    kinesisVars >>

InitPreview ==
    /\ CoordInit
    /\ ScopeInit
    /\ ClientInit(DefaultRateLimitDelay)
    /\ \E list \in RawLists : PreviewInit(list)
    /\ PublisherInit
    /\ HandlerInit
    /\ CliInit
    /\ KinesisInit(<<>>)

NextPreview == FormatArticles

SpecPreview == InitPreview /\ [][NextPreview]_vars

(* --------------------------- publisher actions -------------------------- *)
\* KinesisPublisher(stream_name, ...): an instance, or a raised error
ConstructKinesis ==
    /\ publisher.class = "none"
    /\ p_nops = 0
    /\ \E stream_name \in StreamNames, aws \in AwsStates :
         LET r == kinesis_init(stream_name, aws) IN
         /\ publisher' = IF r.kind = "return" THEN KinesisInstance(aws.status) ELSE NoPublisher
         /\ p_ret' = PubCall("KinesisPublisher", 0,
                             [stream_name |-> stream_name, aws |-> aws], NoPublisher,
                             IF r.kind = "return" THEN PubReturn(0) ELSE PubRaise(r.exc, r.msg))
    /\ p_nops' = 1
    /\ UNCHANGED << p_closes, p_sent >>
    /\ UNCHANGED << coordVars, scopeVars, clientVars, previewVars, handlerVars, cliVars,
                    kinesisVars >>

\* MockPublisher()
ConstructMock ==
    /\ publisher.class = "none"
    /\ p_nops = 0
    /\ publisher' = MockInstance
    /\ p_ret' = PubCall("MockPublisher", 0, NoConstruction, NoPublisher, PubReturn(0))
    /\ p_nops' = 1
    /\ UNCHANGED << p_closes, p_sent >>
    /\ UNCHANGED << coordVars, scopeVars, clientVars, previewVars, handlerVars, cliVars,
                    kinesisVars >>

\* publish_message(message) on the instance
PublisherPublishMessage ==
    /\ publisher.class # "none"
    /\ p_nops < MaxOps
    /\ \E m \in Messages :
         /\ IF publisher.class = "KinesisPublisher"
            THEN /\ \E o \in PutRecordOutcomes :
                      p_ret' = PubCall("publish_message", 1, NoConstruction, publisher,
                                       kinesis_publish_message(publisher, o))
                 /\ UNCHANGED publisher
            ELSE LET c == mock_publish_message(publisher, m) IN
                 /\ publisher' = c.pub
                 /\ p_ret' = PubCall("publish_message", 1, NoConstruction, publisher, c.out)
         /\ p_sent' = Append(p_sent, m)
    /\ p_nops' = p_nops + 1
    /\ UNCHANGED p_closes
    /\ UNCHANGED << coordVars, scopeVars, clientVars, previewVars, handlerVars, cliVars,
                    kinesisVars >>

\* publish_batch(messages) on the instance
PublisherPublishBatch ==
    /\ publisher.class # "none"
    /\ p_nops < MaxOps
    /\ \E messages \in MessageLists :
         /\ IF publisher.class = "KinesisPublisher"
            THEN /\ \E o \in PutRecordsOutcomes(Len(messages)) :
                      p_ret' = PubCall("publish_batch", Len(messages), NoConstruction,
                                       publisher,
                                       kinesis_publish_batch(publisher, Len(messages), o))
                 /\ UNCHANGED publisher
            ELSE LET c == mock_publish_batch(publisher, messages) IN
                 /\ publisher' = c.pub
                 /\ p_ret' = PubCall("publish_batch", Len(messages), NoConstruction,
                                     publisher, c.out)
         /\ p_sent' = p_sent \o messages
    /\ p_nops' = p_nops + 1
    /\ UNCHANGED p_closes
    /\ UNCHANGED << coordVars, scopeVars, clientVars, previewVars, handlerVars, cliVars,
                    kinesisVars >>

\* close() on the instance
PublisherClose ==
    /\ publisher.class # "none"
    /\ p_nops < MaxOps
    /\ LET c == publisher_close(publisher) IN
       /\ publisher' = c.pub
       /\ p_ret' = PubCall("close", 0, NoConstruction, publisher, c.out)
    /\ p_closes' = p_closes + 1
    /\ p_nops' = p_nops + 1
    /\ UNCHANGED p_sent
    /\ UNCHANGED << coordVars, scopeVars, clientVars, previewVars, handlerVars, cliVars,
                    kinesisVars >>

\* clear_messages() on a MockPublisher
PublisherClearMessages ==
    /\ publisher.class = "MockPublisher"
    /\ p_nops < MaxOps
    /\ LET c == mock_clear_messages(publisher) IN
       /\ publisher' = c.pub
       /\ p_ret' = PubCall("clear_messages", 0, NoConstruction, publisher, c.out)
    /\ p_sent' = <<>>
    /\ p_nops' = p_nops + 1
    /\ UNCHANGED p_closes
    /\ UNCHANGED << coordVars, scopeVars, clientVars, previewVars, handlerVars, cliVars,
                    kinesisVars >>

NextPublisher ==
    \/ ConstructKinesis
    \/ ConstructMock
    \/ PublisherPublishMessage
    \/ PublisherPublishBatch
    \/ PublisherClose
    \/ PublisherClearMessages

SpecPublisher == Init /\ [][NextPublisher]_vars

(* ------------------------ Lambda handler actions ------------------------ *)
\* handler(event, context) up to the call of fetch_and_publish inside the
\* with-block: the parameters, the configuration, the factory, __enter__ and
\* the first steps of fetch_and_publish; an exception on the way is answered
HandlerInvoke ==
    /\ h_pc = "idle"
    /\ pc = "idle"
    /\ scope = "none"
    /\ \E ev \in Events, e \in Envs, aws \in AwsStates :
         LET p == handler_prepare(ev, e, aws) IN
         /\ event' = ev
         /\ env' = e
         /\ h_stage' = p.stage
         /\ IF p.stage # "fetch"
            THEN /\ h_pc' = "done"
                 /\ h_response' = ErrorResponse(p.exc)
                 /\ UNCHANGED << coordVars, scopeVars >>
            ELSE /\ h_pc' = "running"
                 /\ h_response' = NoHandlerResponse
                 /\ api_client' = "GuardianAPIClient"
                 /\ message_broker' = "KinesisPublisher"
                 /\ scope' = "entered"
                 /\ CallWith(ev.search_term.text, ev.date_from, p.max_articles)
                 /\ UNCHANGED << close_log, propagated >>
    /\ UNCHANGED << clientVars, previewVars, publisherVars, cliVars,
                    kinesisVars >>

\* fetch_and_publish is over: __exit__ closes the publisher, and the handler
\* returns the result with status 200 or answers the exception
HandlerReturn ==
    /\ h_pc = "running"
    /\ pc = "done"
    /\ \E o \in CloseOutcomesOf(message_broker) :
         LET x == exit_scope(BodyException(ret), o) IN
         /\ close_log' = close_log \o x.closed
         /\ propagated' = x.propagated
         /\ h_response' = IF x.propagated.type = "none"
                          THEN ResultResponse(ret.value)
                          ELSE ErrorResponse(x.propagated.type)
    /\ scope' = "exited"
    /\ h_pc' = "done"
    /\ UNCHANGED << event, env, h_stage >>
    /\ UNCHANGED coordVars
    /\ UNCHANGED << clientVars, previewVars, publisherVars, cliVars,
                    kinesisVars >>

NextHandler ==
    HandlerInvoke \/ Fetch \/ PublishBatch \/ PublishIndividually \/ HandlerReturn

SpecHandler == Init /\ [][NextHandler]_vars

(* ---------------------- KinesisPublisher call actions ------------------- *)
\* publish_message(messages[0]) on a publisher with a live client
KinesisPublishMessage ==
    /\ k_pc = "idle"
    /\ Len(k_messages) >= 1
    /\ LET key == partition_key(k_messages[1]) IN
       IF key.kind = "raise"
       THEN /\ k_ret' = PubRaise(MessageBrokerError, << "Unexpected error: {}", key.exc >>)
            /\ UNCHANGED k_calls
       ELSE \E o \in PutRecordOutcomes :
            /\ k_calls' = Append(k_calls,
                                 KinesisCall("put_record", << Record(k_messages[1]) >>,
                                             [ kind |-> IF o = "ok" THEN "return" ELSE "raise",
                                               failed |-> 0,
                                               exc |-> IF o = "ok" THEN "" ELSE o ]))
            /\ k_ret' = kinesis_publish_message(KinesisInstance("ACTIVE"), o)
    /\ k_pc' = "done"
    /\ k_op' = "publish_message"
    /\ UNCHANGED << k_messages, k_offset, successful_count >>
    /\ UNCHANGED << coordVars, scopeVars, clientVars, previewVars, publisherVars,
                    handlerVars, cliVars >>

\* publish_batch(messages) is entered: 0 for an empty list, otherwise the
\* loop over the batches starts
KinesisPublishBatch ==
    /\ k_pc = "idle"
    /\ IF k_messages = <<>>
       THEN /\ k_pc' = "done"
            /\ k_ret' = PubReturn(0)
       ELSE /\ k_pc' = "batch"
            /\ UNCHANGED k_ret
    /\ k_op' = "publish_batch"
    /\ successful_count' = 0
    /\ k_offset' = 0
    /\ UNCHANGED << k_messages, k_calls >>
    /\ UNCHANGED << coordVars, scopeVars, clientVars, previewVars, publisherVars,
                    handlerVars, cliVars >>

\* one round of the loop of publish_batch: the records are prepared and sent
\* with one put_records call; after the last round the count is returned
KinesisPutRecords ==
    /\ k_pc = "batch"
    /\ LET p == prepare_records(batch_of(k_messages, k_offset)) IN
       IF p.kind = "raise"
       THEN /\ k_ret' = batch_failure(p.exc, successful_count)
            /\ k_pc' = "done"
            /\ UNCHANGED << k_calls, successful_count, k_offset >>
       ELSE \E o \in PutRecordsSamples(Len(p.records)) :
            /\ k_calls' = Append(k_calls, KinesisCall("put_records", p.records, o))
            /\ IF o.kind = "raise"
               THEN /\ k_ret' = batch_failure(o.exc, successful_count)
                    /\ k_pc' = "done"
                    /\ UNCHANGED << successful_count, k_offset >>
               ELSE /\ successful_count' =
                           successful_count + batch_successful(Len(p.records), o)
                    /\ k_offset' = k_offset + KinesisBatchSize
                    /\ IF k_offset' < Len(k_messages)
                       THEN UNCHANGED << k_pc, k_ret >>
                       ELSE /\ k_pc' = "done"
                            /\ k_ret' = PubReturn(successful_count')
    /\ UNCHANGED << k_messages, k_op >>
    /\ UNCHANGED << coordVars, scopeVars, clientVars, previewVars, publisherVars,
                    handlerVars, cliVars >>

InitKinesis ==
    /\ CoordInit
    /\ ScopeInit
    /\ ClientInit(DefaultRateLimitDelay)
    /\ PreviewInit(<<>>)
    /\ PublisherInit
    /\ HandlerInit
    /\ CliInit
    /\ \E msgs \in KinesisInputs : KinesisInit(msgs)

NextKinesis == KinesisPublishMessage \/ KinesisPublishBatch \/ KinesisPutRecords

SpecKinesis == InitKinesis /\ [][NextKinesis]_vars

(* --------------------- command-line entry point actions ---------------- *)
\* main() up to the call of fetch_and_publish inside the with-block of
\* run_fetch_and_publish; a run that stops before it ends with its exit code
CliStart ==
    /\ cli_pc = "idle"
    /\ pc = "idle"
    /\ scope = "none"
    /\ \E mode \in CliModes, a \in CliArgs, e \in CliEnvs, aws \in AwsStates,
          user \in UserActions :
         LET p == IF mode = "interactive"
                  THEN interactive_mode(a, e, aws, user)
                  ELSE argument_mode(a, e, aws)
         IN  /\ cli_mode' = mode
             /\ cli_args' = a
             /\ cli_stage' = p.stage
             /\ IF p.stage # "fetch"
                THEN /\ cli_pc' = "done"
                     /\ interactive_code' = IF mode = "interactive" THEN p.code ELSE -1
                     /\ exit_code' = main_exit_code(mode, p.code)
                     /\ UNCHANGED << coordVars, scopeVars >>
                ELSE /\ cli_pc' = "running"
                     /\ UNCHANGED << interactive_code, exit_code >>
                     /\ api_client' = "GuardianAPIClient"
                     /\ message_broker' = IF a.use_mock THEN "MockPublisher"
                                          ELSE "KinesisPublisher"
                     /\ scope' = "entered"
                     /\ CallWith(p.term, p.date, p.max_articles)
                     /\ UNCHANGED << close_log, propagated >>
    /\ UNCHANGED << clientVars, previewVars, publisherVars, handlerVars,
                    kinesisVars >>

\* Ctrl-C while fetch_and_publish runs: KeyboardInterrupt is no Exception,
\* so no except clause of the coordinator stops it
CliInterrupt ==
    /\ cli_pc = "running"
    /\ pc # "done"
    /\ pc' = "done"
    /\ ret' = Raised(Raise(KeyboardInterrupt, "", ""))
    /\ UNCHANGED << search_term, date_from, max_articles, articles, result,
                    published_count, idx, log, ncalls, previous, api_client,
                    message_broker >>
    /\ UNCHANGED scopeVars
    /\ UNCHANGED cliVars
    /\ UNCHANGED << clientVars, previewVars, publisherVars, handlerVars,
                    kinesisVars >>

\* fetch_and_publish is over: __exit__ closes the publisher, the result is
\* printed or the exception answered, and main returns
CliFinish ==
    /\ cli_pc = "running"
    /\ pc = "done"
    /\ \E o \in CloseOutcomesOf(message_broker) :
         LET x == exit_scope(BodyException(ret), o) IN
         /\ close_log' = close_log \o x.closed
         /\ propagated' = x.propagated
    /\ scope' = "exited"
    /\ cli_pc' = "done"
    /\ interactive_code' = IF cli_mode = "interactive" THEN result_code(ret) ELSE -1
    /\ exit_code' = main_exit_code(cli_mode, result_code(ret))
    /\ UNCHANGED << cli_mode, cli_args, cli_stage >>
    /\ UNCHANGED coordVars
    /\ UNCHANGED << clientVars, previewVars, publisherVars, handlerVars,
                    kinesisVars >>

NextCli ==
    \/ CliStart
    \/ Fetch
    \/ PublishBatch
    \/ PublishIndividually
    \/ CliInterrupt
    \/ CliFinish

SpecCli == Init /\ [][NextCli]_vars

Next == Call \/ Fetch \/ PublishBatch \/ PublishIndividually \/ EnterScope \/ ExitScope

Spec == Init /\ [][Next]_vars

(* ------------------------ reading the call log -------------------------- *)
CallsOf(op) == { i \in 1..Len(log) : log[i].op = op }

Count(op) == Cardinality(CallsOf(op))

\* the publish_batch call of this execution returned the count k
BatchReturned(k) ==
    \E i \in CallsOf("publish_batch") : log[i].out = "return" /\ log[i].k = k

\* the publish_batch call of this execution raised the exception class e
BatchRaised(e) ==
    \E i \in CallsOf("publish_batch") : log[i].out = "raise" /\ log[i].exc = e

SearchReturned(n) ==
    \E i \in CallsOf("search_content") : log[i].out = "return" /\ log[i].k = n

SearchRaised(e) ==
    \E i \in CallsOf("search_content") : log[i].out = "raise" /\ log[i].exc = e

AllMessagesTrue ==
    \A i \in CallsOf("publish_message") : log[i].out = "return" /\ log[i].k = 1

AllMessagesFailed ==
    \A i \in CallsOf("publish_message") : log[i].out = "raise" \/ log[i].k = 0

InputsValid == validate_inputs(search_term, max_articles).type = "none"

Done == pc = "done"

GotResult == Done /\ ret.kind = "result"

GotCoordinatorError ==
    Done /\ ret.kind = "raise" /\ ret.error.type = GuardianContentFetcherError

(* ------------------------------- claims --------------------------------- *)

\* C1: every result returned by fetch_and_publish, whatever integer
\* publish_batch returned, has 0 <= articles_published <= articles_found.
C1_PublishedWithinFound ==
    GotResult =>
        /\ 0 <= ret.value.articles_published
        /\ ret.value.articles_published <= ret.value.articles_found

C4_FallbackAllSucceed ==
    (Done /\ Len(articles) >= 1 /\ BatchReturned(0) /\ AllMessagesTrue) =>
        /\ GotResult
        /\ ret.value.success = TRUE
        /\ ret.value.articles_published = Len(articles)
        /\ ret.value.errors = <<>>
        /\ Count("publish_batch") = 1
        /\ Count("publish_message") = Len(articles)
        /\ \A i \in CallsOf("publish_batch"), j \in CallsOf("publish_message") : i < j

C4_Witness ==
    /\ GotResult
    /\ Len(articles) = 3
    /\ BatchReturned(0)
    /\ AllMessagesTrue
    /\ Count("publish_message") = 3
    /\ ret.value.articles_published = 3

\* C5: N >= 1 articles, publish_batch returning 0 and every publish_message
\* failing (false or raised) give a returned result with success = false,
\* articles_found = N, articles_published = 0 and the single error entry
\* "Failed to publish any articles to message broker".
C5_FallbackAllFail ==
    (Done /\ Len(articles) >= 1 /\ BatchReturned(0) /\ AllMessagesFailed) =>
        /\ GotResult
        /\ ret.value.success = FALSE
        /\ ret.value.articles_found = Len(articles)
        /\ ret.value.articles_published = 0
        /\ ret.value.errors = << FailedMsg >>

C5_Witness ==
    /\ GotResult
    /\ Len(articles) = 2
    /\ BatchReturned(0)
    /\ log[3].op = "publish_message" /\ log[3].out = "raise"
    /\ log[4].op = "publish_message" /\ log[4].out = "return" /\ log[4].k = 0
    /\ ret.value.success = FALSE

\* C6: when publish_batch raises BrokerError, fetch_and_publish raises the
\* coordinator-level error, returns no result, and never calls publish_message.
C6_BatchRaises ==
    BatchRaised(MessageBrokerError) =>
        /\ GotCoordinatorError
        /\ ret.error.cause = MessageBrokerError
        /\ Count("publish_message") = 0

C6_Witness ==
    /\ BatchRaised(MessageBrokerError)
    /\ GotCoordinatorError
    /\ Len(articles) >= 2

C8_SearchRaises ==
    SearchRaised(GuardianAPIError) =>
        /\ GotCoordinatorError
        /\ ret.error.cause = GuardianAPIError
        /\ Count("search_content") = 1
        /\ Count("publish_batch") = 0
        /\ Count("publish_message") = 0

C8_Witness ==
    /\ SearchRaised(GuardianAPIError)
    /\ GotCoordinatorError
    /\ ncalls = 2

\* C9: when the search returns no article, fetch_and_publish returns
\* success = true, both counts 0 and no errors, and calls neither
\* publish_batch nor publish_message.
C9_NoArticles ==
    SearchReturned(0) =>
        /\ GotResult
        /\ ret.value.success = TRUE
        /\ ret.value.articles_found = 0
        /\ ret.value.articles_published = 0
        /\ ret.value.errors = <<>>
        /\ Count("publish_batch") = 0
        /\ Count("publish_message") = 0

C9_Witness ==
    /\ SearchReturned(0)
    /\ GotResult
    /\ ret.value.success = TRUE

\* C10: N >= 1 articles and publish_batch returning exactly N give
\* success = true, articles_found = articles_published = N, no errors, no
\* publish_message call, and search_term and date_from equal to the arguments.
C10_FullBatch ==
    (Done /\ Len(articles) >= 1 /\ BatchReturned(Len(articles))) =>
        /\ GotResult
        /\ ret.value.success = TRUE
        /\ ret.value.articles_found = Len(articles)
        /\ ret.value.articles_published = Len(articles)
        /\ ret.value.errors = <<>>
        /\ Count("publish_message") = 0
        /\ ret.value.search_term = search_term
        /\ ret.value.date_from = date_from

C10_Witness ==
    /\ GotResult
    /\ Len(articles) = 3
    /\ BatchReturned(3)
    /\ search_term = << " ", "a", " " >>
    /\ date_from = "2023-01-01"

\* C11: when the coordinator is used in a with-block, the publisher's close()
\* is called exactly once on exit, whether the body ended normally or by an
\* exception; an exception raised by close() is swallowed and the body's own
\* exception (or none) is what leaves the block.
C11_ScopedClose ==
    /\ (scope = "exited") =>
          /\ Len(close_log) = 1
          /\ propagated = BodyException(ret)
    /\ (scope # "exited") => (close_log = <<>> /\ propagated = NoError)

C11_Witness ==
    /\ scope = "exited"
    /\ GotCoordinatorError
    /\ Len(close_log) = 1
    /\ close_log[1].kind = "raise"
    /\ propagated.type = GuardianContentFetcherError

(* ----------------------- reading the search client ---------------------- *)
\* a step in which search_content is called
SearchContentCalled == c_ncalls' = c_ncalls + 1

\* the text has the shape YYYY-MM-DD: four digits, two digits, two digits
IsYYYYMMDD(s) ==
    /\ Len(s) = 10
    /\ s[5] = "-" /\ s[8] = "-"
    /\ \A i \in {1, 2, 3, 4, 6, 7, 9, 10} : IsDigit(s[i])

\* the arguments search_content has to refuse: an empty or blank term, a
\* page size outside [1, 50], a date that is given and is not YYYY-MM-DD
ArgumentsInvalid(a) ==
    \/ strip(a.term) = <<>>
    \/ a.page_size < 1 \/ a.page_size > 50
    \/ (a.date # None /\ a.date # "" /\ ~IsYYYYMMDD(DateText(a.date)))

\* the last request failed remotely: the transport failed, the body was not
\* parseable, or the document carries no status "ok" (a document without the
\* expected structure included)
RemoteFailure(t) ==
    \/ t.kind \in {"ConnectionError", "Timeout", "HTTPError", "InvalidJSON"}
    \/ (t.kind = "json" /\ ~(t.top = "object" /\ t.response = "object" /\ t.status = "ok"))

\* the document carries a status other than "ok" and an error message
StatusCase(t) ==
    /\ t.kind = "json" /\ t.top = "object" /\ t.response = "object"
    /\ t.status # "ok" /\ t.message # "missing"

\* the bodyText the mapping loop reads from a raw result
BodyOf(raw) == IF raw.fields THEN raw.bodyText ELSE <<>>

\* C15: search_content fails with ValueError when the term is empty or blank,
\* the page size is outside [1, 50], or date_from is given and is not in
\* YYYY-MM-DD form; on these failures no remote request is issued, the rate
\* limiter causes no delay and _last_request_time is unchanged.
C15_InvalidArgumentBeforeRequest ==
    [][ (SearchContentCalled /\ ArgumentsInvalid(c_args')) =>
            /\ c_ret'.kind = "raise"
            /\ c_ret'.exc = ValueError
            /\ requests' = requests
            /\ now' = now
            /\ last_request_time' = last_request_time ]_vars

\* C16: the remote requests of two consecutive validated calls start at least
\* rate_limit_delay apart: a call made less than the delay after the previous
\* request started is blocked for (delay - elapsed), any other call is not
\* delayed, whether the previous request succeeded or failed.
C16_RateLimit ==
    \A i \in 2..Len(requests) :
        LET elapsed == requests[i].called - requests[i - 1].start IN
        /\ requests[i].start - requests[i - 1].start >= rate_limit_delay
        /\ IF elapsed < rate_limit_delay
           THEN requests[i].start - requests[i].called = rate_limit_delay - elapsed
           ELSE requests[i].start = requests[i].called

\* a call blocked for part of the delay, after a request that failed
C16_Witness ==
    /\ Len(requests) = 2
    /\ requests[1].out = "raise"
    /\ requests[2].called - requests[1].start = 1
    /\ requests[2].start - requests[2].called = rate_limit_delay - 1
    /\ c_pc = "idle"

\* C17: a validated search_content call fails with GuardianAPIError, and with
\* no other error, whenever the transport fails, the body is not parseable or
\* the embedded status is not "ok" (a response without the expected structure
\* included); in the status case the message is the one of the error payload.
C17_RemoteFailureIsGuardianAPIError ==
    (c_pc = "idle" /\ RemoteFailure(response)) =>
        /\ c_ret.kind = "raise"
        /\ c_ret.exc = GuardianAPIError
        /\ StatusCase(response) => c_ret.detail = response.message

\* C18: the mapping gives one article per raw result, in the same order; the
\* preview is the whole body text when it has at most 1000 characters, its
\* first 1000 characters followed by "..." (1003 characters) when it is
\* longer, and is absent when the body text is missing or empty.
C18_ContentPreview ==
    formatted.done =>
        /\ Len(formatted.articles) = Len(raw_results)
        /\ \A i \in 1..Len(raw_results) :
              LET body == BodyOf(raw_results[i])
                  a == formatted.articles[i]
              IN  /\ a.webUrl = raw_results[i].webUrl
                  /\ (Len(body) = 0) => ~a.has_preview
                  /\ (Len(body) > 0 /\ Len(body) <= 1000) =>
                         (a.has_preview /\ a.content_preview = body)
                  /\ (Len(body) > 1000) =>
                         /\ a.has_preview
                         /\ Len(a.content_preview) = 1003
                         /\ SubSeq(a.content_preview, 1, 1000) = SubSeq(body, 1, 1000)
                         /\ SubSeq(a.content_preview, 1001, 1003) = << ".", ".", "." >>

\* a truncated preview, a whole one and an absent one in one response
C18_Witness ==
    /\ formatted.done
    /\ Len(raw_results) = 2
    /\ Len(BodyOf(raw_results[1])) = 1000
    /\ Len(BodyOf(raw_results[2])) = 1050
    /\ Len(formatted.articles[1].content_preview) = 1000
    /\ Len(formatted.articles[2].content_preview) = 1003

(* ------------------------- reading the publisher ------------------------ *)
\* the last call was a publish call on a Kinesis publisher already closed
PublishedAfterClose ==
    /\ p_ret.op \in {"publish_message", "publish_batch"}
    /\ p_ret.before.class = "KinesisPublisher"
    /\ p_ret.before.client = "None"

\* close() returned, and from the second close on the instance is as it was
CloseIdempotent ==
    (p_ret.op = "close") =>
        /\ p_ret.kind = "return"
        /\ (p_closes >= 2) => (publisher = p_ret.before)

\* the text occurs in the message of the last call
Mentions(text) == \E i \in 1..Len(p_ret.msg) : p_ret.msg[i] = text

\* the last call constructed a Kinesis publisher for a non-empty stream name
KinesisConstructed == p_ret.op = "KinesisPublisher" /\ p_ret.arg.stream_name # ""

\* C19 as stated: close() on either publisher is idempotent and never
\* raises, a second close leaves the publisher as the first close left it,
\* and every publish call on a Kinesis publisher after close() ends in
\* MessageBrokerError.
C19_PublishAfterCloseRaisesBrokerError ==
    /\ CloseIdempotent
    /\ PublishedAfterClose => (p_ret.kind = "raise" /\ p_ret.exc = MessageBrokerError)

\* C19 amended: close() on either publisher is idempotent and never raises,
\* a second close leaves the publisher as the first close left it; after
\* close() a Kinesis publisher's publish_message and publish_batch of a
\* non-empty list end in MessageBrokerError, publish_batch of an empty list
\* returns 0, and no publish call ends in any other error.
C19_PublishAfterCloseNeverCrashes ==
    /\ CloseIdempotent
    /\ PublishedAfterClose =>
          IF p_ret.op = "publish_batch" /\ p_ret.n = 0
          THEN p_ret.kind = "return" /\ p_ret.k = 0
          ELSE p_ret.kind = "raise" /\ p_ret.exc = MessageBrokerError

\* a publish_message on a Kinesis publisher that was closed twice
C19_Witness ==
    /\ p_closes = 2
    /\ PublishedAfterClose
    /\ p_ret.op = "publish_message"
    /\ p_ret.exc = MessageBrokerError

\* C20: a Kinesis publisher instance exists only if describe_stream reported
\* ACTIVE or UPDATING at construction; for a non-empty stream name the
\* construction fails with MessageBrokerError, never with another error, when
\* the stream does not exist, its status is anything else, credentials are
\* missing or the client call fails; the "does not exist" and "is not
\* active" failures carry different messages.
C20_KinesisConstruction ==
    /\ (publisher.class = "KinesisPublisher") => (publisher.status \in {"ACTIVE", "UPDATING"})
    /\ KinesisConstructed =>
          LET aws == p_ret.arg.aws IN
          /\ (p_ret.kind = "return") =>
                (aws.describe = "return" /\ aws.status \in {"ACTIVE", "UPDATING"})
          /\ (p_ret.kind = "raise") =>
                (p_ret.exc = MessageBrokerError /\ publisher.class = "none")
          /\ (aws.code = "ResourceNotFoundException") =>
                (Mentions("Kinesis stream '{}' does not exist")
                   /\ ~Mentions("Kinesis stream '{}' is not active. Status: {}"))
          /\ (aws.describe = "return" /\ aws.status \notin {"ACTIVE", "UPDATING"}) =>
                (Mentions("Kinesis stream '{}' is not active. Status: {}")
                   /\ ~Mentions("Kinesis stream '{}' does not exist"))

\* the construction failed because the stream does not exist
C20_Witness ==
    /\ KinesisConstructed
    /\ p_ret.arg.aws.code = "ResourceNotFoundException"
    /\ p_ret.kind = "raise"
    /\ p_ret.exc = MessageBrokerError
    /\ publisher.class = "none"

(* -------------------------- reading the handler ------------------------- *)
HandlerDone == h_pc = "done"

\* the event's max_articles is a JSON integer, or a string of digits
MaxArticlesIsInteger(m) ==
    \/ m.kind = "int"
    \/ (m.kind = "str" /\ m.text # <<>> /\ AllDigits(m.text))

\* a parameter error of the event: search_term missing or empty,
\* max_articles not an integer or outside [1, 50], date_from not YYYY-MM-DD
ParameterError(ev) ==
    \/ ~ev.search_term.given \/ ev.search_term.text = <<>>
    \/ (ev.max_articles.kind # "missing" /\ ~MaxArticlesIsInteger(ev.max_articles))
    \/ (MaxArticlesIsInteger(ev.max_articles)
          /\ int_max_articles(ev.max_articles).n \notin 1..50)
    \/ (ev.date_from # None /\ ~IsYYYYMMDD(DateText(ev.date_from)))

\* a configuration error of the environment: no API key, or no Kinesis
\* configuration (the mock broker asked for, or an empty stream name)
ConfigurationMissing(e) ==
    \/ ~e.api_key
    \/ e.use_mock
    \/ kinesis_stream_name(e) = ""

\* C12: the handler returns status 400 for every parameter or configuration
\* error: search_term missing or empty, max_articles not an integer or
\* outside [1, 50], date_from not in YYYY-MM-DD form, API key missing, or
\* Kinesis configuration missing; never 200 or 500 in these cases.
C12_BadRequestOnParameterError ==
    (HandlerDone /\ (ParameterError(event) \/ ConfigurationMissing(env))) =>
        h_response.statusCode = 400

\* C13: the handler returns status 200 with the result as body exactly when
\* fetch_and_publish returned a result, whatever its success flag; it returns
\* 500 when the construction of the coordinator or fetch_and_publish failed;
\* it always returns a response, no exception reaches its caller.
C13_HandlerStatus ==
    HandlerDone =>
        /\ h_response.statusCode \in {200, 400, 500}
        /\ (h_response.statusCode = 200) <=> (h_stage = "fetch" /\ ret.kind = "result")
        /\ (h_response.statusCode = 200) =>
              (h_response.body = "result" /\ h_response.result = ret.value)
        /\ (h_stage = "construction") => (h_response.statusCode = 500)
        /\ (h_stage = "fetch" /\ ret.kind = "raise") => (h_response.statusCode = 500)

\* a completed operation with success = false answered with 200
C13_Witness ==
    /\ HandlerDone
    /\ h_stage = "fetch"
    /\ ret.kind = "result"
    /\ ~ret.value.success
    /\ ret.value.articles_found = 2
    /\ h_response.statusCode = 200
    /\ h_response.result.errors = << FailedMsg >>

(* ------------------- reading the command-line entry point --------------- *)
\* the operation completed and reported success
OperationSucceeded ==
    cli_stage = "fetch" /\ ret.kind = "result" /\ ret.value.success

\* C14: for every invocation of main, in argument mode or interactive mode,
\* the exit code is 0 only if the operation completed with success = true;
\* every abort and every completed operation with success = false yields a
\* non-zero exit code.
C14_ExitCodeZeroOnlyOnSuccess ==
    (cli_pc = "done") => ((exit_code = 0) => OperationSucceeded)

(* ---------------------- reading the returned result --------------------- *)
\* the publish_message calls of this execution that returned True
MessagesTrue ==
    { i \in CallsOf("publish_message") : log[i].out = "return" /\ log[i].k = 1 }

\* C23: in every result returned by fetch_and_publish, errors is non-empty
\* only if a publish shortfall occurred (articles_published below
\* articles_found); whenever the two counts are equal, 0 = 0 included, errors
\* is empty; and errors never holds more than one entry.
C23_ErrorsOnlyOnShortfall ==
    GotResult =>
        /\ (ret.value.errors # <<>>) =>
               (ret.value.articles_published < ret.value.articles_found)
        /\ (ret.value.articles_published = ret.value.articles_found) =>
               (ret.value.errors = <<>>)
        /\ Len(ret.value.errors) <= 1

\* the individual fallback of this execution has run to its end
FallbackFinished == Done /\ CallsOf("publish_message") # {}

\* C25: for any list of N articles and any pattern of per-article outcomes
\* of publish_message (True, False, MessageBrokerError or any other
\* exception), the individual fallback calls publish_message exactly N
\* times, once per article in input order, never exits early and never
\* raises, and returns exactly the number of calls that returned True.
C25_FallbackCountsEveryArticle ==
    /\ (pc = "individual") =>
           /\ Count("publish_message") = idx - 1
           /\ idx <= Len(articles)
           /\ published_count = Cardinality(MessagesTrue)
    /\ \A i \in CallsOf("publish_message") :
           \* the calls follow the one publish_batch call, article by article
           /\ i >= 3
           /\ log[i].arg = articles[i - 2]
    /\ FallbackFinished =>
           /\ Count("publish_message") = Len(articles)
           /\ ret.kind = "result"
           /\ ret.value.articles_published = Cardinality(MessagesTrue)

\* a fallback over three articles met a False, a raised error and a True
C25_Witness ==
    /\ FallbackFinished
    /\ Len(articles) = 3
    /\ \E i, j, k \in CallsOf("publish_message") :
         /\ i < k /\ j < k
         /\ log[i].out = "return" /\ log[i].k = 0
         /\ log[j].out = "raise"
         /\ log[k].out = "return" /\ log[k].k = 1
    /\ ret.value.articles_published = 1

\* C30: in every result returned by fetch_and_publish, success is false
\* exactly when articles_found > 0 and articles_published = 0, which is only
\* the case after the individual fallback has run over every article; in
\* every other returned result success is true, including a fallback in
\* which only some individual publishes succeeded, which then carries the
\* one entry 'Only k out of N articles were published'.
C30_SuccessFlag ==
    GotResult =>
        /\ (~ret.value.success) <=>
               (ret.value.articles_found > 0 /\ ret.value.articles_published = 0)
        /\ (~ret.value.success) => (Count("publish_message") = Len(articles))
        /\ ( /\ CallsOf("publish_message") # {}
             /\ Cardinality(MessagesTrue) > 0
             /\ Cardinality(MessagesTrue) < Len(articles) ) =>
               /\ ret.value.success
               /\ ret.value.errors =
                      << OnlyMsg(Cardinality(MessagesTrue), Len(articles)) >>

\* a fallback over three articles published two of them
C30_Witness ==
    /\ GotResult
    /\ Len(articles) = 3
    /\ Count("publish_message") = 3
    /\ Cardinality(MessagesTrue) = 2
    /\ ret.value.success
    /\ ret.value.errors = << OnlyMsg(2, 3) >>

(* ------------------- reading the size of the article list --------------- *)
\* C22: search_content returns at most page_size articles, whatever number
\* of results the response of the remote API contains, so that
\* fetch_and_publish, which passes max_articles as page_size, never reports
\* articles_found above max_articles nor hands the publisher more than
\* max_articles articles.
C22_AtMostPageSize ==
    (c_pc = "idle" /\ c_ret.kind = "return") =>
        (Len(c_ret.articles) <= c_args.page_size)

(* ------------------- reading one call against its history --------------- *)
\* the result dictionary of an invocation on an instance without history
FreshResult(term, date) ==
    [ success |-> FALSE, articles_found |-> 0, articles_published |-> 0,
      search_term |-> term, date_from |-> date, errors |-> <<>> ]

\* a logged collaborator call as the response it was
ResponseOf(e) == [kind |-> e.out, n |-> e.k, k |-> e.k, exc |-> e.exc]

\* what fetch_and_publish hands its caller on an instance without history,
\* given the arguments and the collaborator responses lg of the call; NoReturn
\* while the responses do not yet settle it
OutcomeOf(term, date, maxa, lg) ==
    LET v == validate_inputs(term, maxa) IN
    IF v.type # "none" THEN Raised(HandleException(v.type))
    ELSE IF Len(lg) < 1 THEN NoReturn
    ELSE
    LET s == ResponseOf(lg[1])
        found == [FreshResult(term, date) EXCEPT !.articles_found = s.n]
    IN  IF FetchOutcome(s) = "raise" THEN Raised(HandleException(s.exc))
        ELSE IF FetchOutcome(s) = "empty"
        THEN Returned([FreshResult(term, date) EXCEPT !.success = TRUE])
        ELSE IF Len(lg) < 2 THEN NoReturn
        ELSE
        LET b == ResponseOf(lg[2])
            trues == Cardinality({ i \in 3..Len(lg) : lg[i].out = "return" /\ lg[i].k = 1 })
        IN  IF BatchOutcome(b, s.n) = "raise"
            THEN Raised(HandleException(PublishArticlesRaises(b.exc)))
            ELSE IF BatchOutcome(b, s.n) = "return"
            THEN Returned(DetermineSuccess(found, b.k, s.n))
            ELSE IF Len(lg) < 2 + s.n THEN NoReturn
            ELSE Returned(DetermineSuccess(found, trues, s.n))

\* C24: the outcome of fetch_and_publish depends only on its arguments and
\* on the responses of the search client and the publisher during that call:
\* whatever the instance did before (earlier successes, partial results,
\* raised errors), the caller receives what an instance without history
\* hands back for the same arguments and responses, and every call starts
\* from zero counts and an empty error list.
C24_IndependentOfHistory ==
    (ncalls >= 1) =>
        /\ ret = OutcomeOf(search_term, date_from, max_articles, log)
        /\ (pc = "fetch") =>
               /\ result = FreshResult(search_term, date_from)
               /\ articles = <<>>
               /\ published_count = 0
               /\ log = <<>>

\* a second call on an instance whose first call ended with an error entry
\* returns a full success without one
C24_Witness ==
    /\ ncalls = 2
    /\ previous \in {"partial", "failed"}
    /\ GotResult
    /\ ret.value.articles_found = 2
    /\ ret.value.articles_published = 2
    /\ ret.value.errors = <<>>

(* ----------------------- reading the mock publisher --------------------- *)
\* the last call was a publish call on a MockPublisher
MockPublished(op) == p_ret.op = op /\ p_ret.before.class = "MockPublisher"

\* C21: after any sequence of publish_message and publish_batch calls on the
\* MockPublisher, the recorded list equals all articles published since the
\* last clear_messages, in call order and, within a batch, in input order;
\* publish_message always returns True and publish_batch always returns the
\* length of its input. The list fetch_and_publish hands to publish_batch is
\* one such input.
C21_MockRecordsInOrder ==
    /\ (publisher.class = "MockPublisher") => (publisher.published_messages = p_sent)
    /\ MockPublished("publish_message") => (p_ret.kind = "return" /\ p_ret.k = 1)
    /\ MockPublished("publish_batch") => (p_ret.kind = "return" /\ p_ret.k = p_ret.n)

\* a mock was handed article 2 alone and then the batch of articles 1 and 2
C21_Witness ==
    /\ MockPublished("publish_batch")
    /\ p_ret.n = 2
    /\ p_ret.before.published_messages = << 2 >>
    /\ publisher.published_messages = << 2, 1, 2 >>

(* ------------------- reading the calls of KinesisPublisher -------------- *)
\* the article has a title: the field is there and is not empty
HasTitle(m) == m.webTitle.kind = "str" /\ m.webTitle.text # <<>>

IsPrefix(s, t) == Len(s) <= Len(t) /\ s = SubSeq(t, 1, Len(s))

\* C26: for every record the KinesisPublisher sends through publish_message
\* or publish_batch, the partition key is the article title cut to at most
\* 256 bytes when the article has a title, and the literal "default" when it
\* has none (title missing or empty); the key is never empty and never
\* longer than 256 bytes, and both publish paths derive the same key for the
\* same article.
C26_PartitionKey ==
    \A c \in 1..Len(k_calls) : \A j \in 1..Len(k_calls[c].records) :
        LET r == k_calls[c].records[j]
            m == r.Data.json
        IN  /\ r.PartitionKey # <<>>
            /\ Utf8Len(r.PartitionKey) <= PartitionKeyLimit
            /\ HasTitle(m) =>
                   /\ IsPrefix(r.PartitionKey, m.webTitle.text)
                   /\ (Utf8Len(m.webTitle.text) <= PartitionKeyLimit) =>
                          (r.PartitionKey = m.webTitle.text)
            /\ ~HasTitle(m) => (r.PartitionKey = DefaultKey)

\* a publish_batch call has ended
BatchDone == k_op = "publish_batch" /\ k_pc = "done"

\* ceil(n / 500)
Chunks(n) == (n + KinesisBatchSize - 1) \div KinesisBatchSize

\* the messages of the records of the calls, one call after the other
RECURSIVE SentMessages(_)
SentMessages(calls) ==
    IF calls = <<>> THEN <<>>
    ELSE SentMessages(SubSeq(calls, 1, Len(calls) - 1))
             \o [j \in 1..Len(calls[Len(calls)].records) |->
                     calls[Len(calls)].records[j].Data.json]

\* C27 as stated: for any input of n messages, publish_batch of the
\* KinesisPublisher issues exactly ceil(n / 500) put_records calls (none
\* when n = 0), each carrying at most 500 records, one after the other, and
\* the batches in call order make up the input in its original order.
C27_ExactlyCeilCalls ==
    BatchDone =>
        /\ Len(k_calls) = Chunks(Len(k_messages))
        /\ \A c \in 1..Len(k_calls) : Len(k_calls[c].records) <= KinesisBatchSize
        /\ SentMessages(k_calls) = k_messages

\* C27, amended: every put_records call of publish_batch carries between 1
\* and 500 records and is issued only after the call before it returned; the
\* batches sent so far make up, in call order, the beginning of the input in
\* its original order; a publish_batch that returns has issued exactly
\* ceil(n / 500) calls (none when n = 0) that make up the whole input, and
\* one that raises has issued fewer or as many and no call after the failure.
C27_ChunksInOrder ==
    (k_op = "publish_batch") =>
        /\ \A c \in 1..Len(k_calls) :
               /\ k_calls[c].op = "put_records"
               /\ Len(k_calls[c].records) >= 1
               /\ Len(k_calls[c].records) <= KinesisBatchSize
               /\ (c < Len(k_calls)) => (k_calls[c].kind = "return")
        /\ IsPrefix(SentMessages(k_calls), k_messages)
        /\ Len(k_calls) <= Chunks(Len(k_messages))
        /\ (BatchDone /\ k_ret.kind = "return") =>
               /\ Len(k_calls) = Chunks(Len(k_messages))
               /\ SentMessages(k_calls) = k_messages

\* a list of 1001 messages went out in batches of 500, 500 and 1
C27_Witness ==
    /\ BatchDone
    /\ k_ret.kind = "return"
    /\ Len(k_messages) = 2 * KinesisBatchSize + 1
    /\ Len(k_calls) = 3
    /\ Len(k_calls[1].records) = KinesisBatchSize
    /\ Len(k_calls[2].records) = KinesisBatchSize
    /\ Len(k_calls[3].records) = 1

\* an underlying call of the publish call failed
SomeCallFailed == \E c \in 1..Len(k_calls) : k_calls[c].kind = "raise"

\* every message of the input can be made into a record
AllPreparable == \A j \in 1..Len(k_messages) : partition_key(k_messages[j]).kind = "return"

\* the sum over the calls of (number of records - failed count)
RECURSIVE SumSuccessful(_)
SumSuccessful(calls) ==
    IF calls = <<>> THEN 0
    ELSE SumSuccessful(Tail(calls)) + (Len(Head(calls).records) - Head(calls).failed)

NoRecordFailed == \A c \in 1..Len(k_calls) : k_calls[c].failed = 0

\* the count publish_batch returned is the sum, within 0..n, and n exactly
\* when no record failed
ReturnedTheSum ==
    /\ k_ret.kind = "return"
    /\ k_ret.k = SumSuccessful(k_calls)
    /\ k_ret.k >= 0
    /\ k_ret.k <= Len(k_messages)
    /\ (k_ret.k = Len(k_messages)) <=> NoRecordFailed

RaisedBrokerError == k_ret.kind = "raise" /\ k_ret.exc = MessageBrokerError

\* C28 as stated: publish_batch of the KinesisPublisher either returns a
\* count or fails with MessageBrokerError; when no underlying call fails it
\* returns the sum over the batches of (size - failed count), which lies in
\* 0..n and equals n exactly when no record failed; when any underlying call
\* fails it raises MessageBrokerError instead of returning the count so far.
C28_CountOrBrokerError ==
    BatchDone =>
        /\ ~SomeCallFailed => ReturnedTheSum
        /\ SomeCallFailed => RaisedBrokerError

\* C28, amended: publish_batch either returns a count or fails with
\* MessageBrokerError, never anything else; it returns exactly when every
\* record could be prepared and no underlying call failed, and the count is
\* then the sum over the batches of (size - failed count), within 0..n and
\* equal to n exactly when no record failed; when an underlying call fails,
\* or a record cannot be prepared, it raises MessageBrokerError instead of
\* returning the count accumulated so far.
C28_CountOrBrokerErrorWhenPrepared ==
    BatchDone =>
        /\ ReturnedTheSum \/ RaisedBrokerError
        /\ (AllPreparable /\ ~SomeCallFailed) => ReturnedTheSum
        /\ (SomeCallFailed \/ ~AllPreparable) => RaisedBrokerError

\* three batches of 500, 500 and 1 records, one record of the first and the
\* only record of the third failed: 999 of 1001
C28_Witness ==
    /\ BatchDone
    /\ Len(k_calls) = 3
    /\ k_calls[1].failed = 1
    /\ k_calls[2].failed = 0
    /\ k_calls[3].failed = 1
    /\ k_ret.kind = "return"
    /\ k_ret.k = 2 * KinesisBatchSize - 1

(* ------------- reading a call against the Kinesis publisher ------------- *)
\* the records the broker reported as accepted in this execution: the count
\* of the batch call and the individual calls that returned True
AcceptedByBroker ==
    Cardinality(MessagesTrue)
        + Cardinality({ << i, j >> \in CallsOf("publish_batch") \X (1..MaxFound + 1) :
                          log[i].out = "return" /\ j <= log[i].k })

====
